---- MODULE Spec2Model ----
(***************************************************************************)
(* Verification model of CSUClassroomQuery (Python).                       *)
(*                                                                         *)
(* Text is modelled at the character level: a Python str is a sequence of  *)
(* one-character strings.  Characters outside ASCII are written by name:   *)
(*   "dan" = U+5355 (the odd mark)       "shuang" = U+53CC (the even mark)   *)
(*   "zhou" = U+5468 (week)              "sup2" = U+00B2 (superscript two)   *)
(*   "zuo" = U+5EA7 (the block suffix)   "shi" = U+4E16 (the wing prefix)    *)
(* "sup2" stands for the characters for which str.isdigit() is True while  *)
(* int() raises ValueError.                                                *)
(***************************************************************************)
EXTENDS Integers, Sequences, FiniteSets, TLC

VARIABLES
    pc,               \* position of the program / of the call being checked
    time_str,         \* argument of parse_time_periods
    time_info,        \* its return value
    week_range,       \* first argument of parse_weeks
    single_double,    \* second argument of parse_weeks
    weeks,            \* its return value
    week_text,        \* argument of parse_week_numbers (old_version)
    week_numbers,     \* its outcome: the returned set, or raised
    results,          \* argument of merge_classroom_results (old_version)
    merged_results,   \* its outcome: the returned list, or raised
    all_classrooms,   \* the roster load_classrooms returned
    used_classrooms,  \* the index: (week, day, period) -> set of rooms
    rows_read,        \* the timetable rows the loop has read (as a set)
    n_rows,           \* how many rows the loop has read (pbar's count)
    selected_week,    \* the week format_and_write_sheet was called for
    status_text,      \* its mode: "occupied" or "free"
    sheet,            \* the 5 x 5 data cells it filled
    cell_rooms,       \* classrooms_to_show handed to sorted() (line 307)
    cell_sorted,      \* its outcome: sorted_classrooms_raw, or raised
    room_cell,        \* classroom_raw, the room cell of a row (line 215)
    room_ids,         \* processed_classrooms (lines 226-231)
    source_files,     \* source_dir: per basename, its .csv and its .xlsx
    load_result,      \* per basename, what load_schedule_data returned
    report_args,      \* selected_week and show_occupied of the running call
    pairs_left,       \* available_pairs the loop of line 385 has yet to take
    sheetnames,       \* output_workbook.sheetnames
    saved_files,      \* the workbooks output_workbook.save has written
    json_file,        \* main.py: classrooms.json
    xlsx_file,        \* main.py: input1.xlsx
    room_config,      \* main.py: all_classrooms of main()
    query_return,     \* main.py: what read_excel_cells returned to main()
    week_answer,      \* main.py: used_classrooms and available of lines 310-317
    exported          \* main.py: empty_classrooms.xlsx as export_to_excel saved it

timeVars == <<time_str, time_info>>
weekVars == <<week_range, single_double, weeks>>
mergeVars == <<results, merged_results>>
oldVars  == <<week_text, week_numbers, mergeVars>>
loadVars == <<all_classrooms, used_classrooms, rows_read, n_rows>>
sheetVars == <<selected_week, status_text, sheet>>
sortVars == <<cell_rooms, cell_sorted>>
roomVars == <<room_cell, room_ids>>
fileVars == <<source_files, load_result, report_args, pairs_left, sheetnames,
              saved_files>>
mainVars == <<json_file, xlsx_file, room_config, query_return, week_answer,
              exported>>
vars == <<pc, timeVars, weekVars, oldVars, loadVars, sheetVars, sortVars, roomVars, fileVars, mainVars>>

----------------------------------------------------------------------------
(* Characters and the str / int primitives the code relies on. *)

AsciiDigits == {"0", "1", "2", "3", "4", "5", "6", "7", "8", "9"}

DigitVal(c) ==
    CASE c = "0" -> 0 [] c = "1" -> 1 [] c = "2" -> 2 [] c = "3" -> 3
      [] c = "4" -> 4 [] c = "5" -> 5 [] c = "6" -> 6 [] c = "7" -> 7
      [] c = "8" -> 8 [] c = "9" -> 9

\* str.isdigit() on one character
IsDigitChar(c) == c \in AsciiDigits \cup {"sup2"}

\* characters int() reads as a decimal digit
IsDecimalChar(c) == c \in AsciiDigits

\* str.isdigit(): non-empty and every character a digit
IsDigit(s) == Len(s) > 0 /\ \A i \in 1..Len(s) : IsDigitChar(s[i])

\* value of a non-empty string of decimal digits
RECURSIVE DecimalValue(_)
DecimalValue(s) ==
    IF Len(s) = 0 THEN 0
    ELSE 10 * DecimalValue(SubSeq(s, 1, Len(s) - 1)) + DigitVal(s[Len(s)])

Max(a, b) == IF a >= b THEN a ELSE b
Min(a, b) == IF a <= b THEN a ELSE b

\* sorted(): the ascending sequence of a set of integers
RECURSIVE SortedSeq(_)
SortedSeq(S) ==
    IF S = {} THEN <<>>
    ELSE LET m == CHOOSE x \in S : \A y \in S : x <= y
         IN  <<m>> \o SortedSeq(S \ {m})

Range(s) == {s[i] : i \in 1..Len(s)}

----------------------------------------------------------------------------
(* parse_time_periods *)

\* the Python value None returned in place of (day, periods)
NoTime == [day |-> 0, periods |-> <<>>]

\* The loop of lines 96-104 from 1-based position i on: the list `periods`
\* in append order, or raised = TRUE when int(period_str) raises ValueError.
RECURSIVE ScanPeriods(_, _, _)
ScanPeriods(s, i, periods) ==
    IF i > Len(s) THEN [raised |-> FALSE, periods |-> periods]
    ELSE IF i + 1 > Len(s) THEN ScanPeriods(s, i + 2, periods)
    ELSE LET period_str == SubSeq(s, i, i + 1) IN
         IF ~IsDigit(period_str) THEN ScanPeriods(s, i + 2, periods)
         ELSE IF \E j \in 1..2 : ~IsDecimalChar(period_str[j])
              THEN [raised |-> TRUE, periods |-> periods]
         ELSE LET period == DecimalValue(period_str)
                  period_group == (period + 1) \div 2
              IN  IF period >= 1 /\ period <= 10 /\ period_group \notin Range(periods)
                  THEN ScanPeriods(s, i + 2, Append(periods, period_group))
                  ELSE ScanPeriods(s, i + 2, periods)

\* lines 89-92 with the weekend test left out
DayRejected_NoWeekendTest(day) == day < 1 \/ day > 7

\* lines 89-92: the two early returns on the weekday
DayRejected(day) == (day < 1 \/ day > 7) \/ (day = 6 \/ day = 7)

parse_time_periods(s) ==
    IF Len(s) = 0 THEN NoTime
    ELSE IF ~IsDecimalChar(s[1]) THEN NoTime          \* int() raises ValueError
    ELSE LET day == DigitVal(s[1]) IN
         IF DayRejected(day) THEN NoTime
         ELSE LET r == ScanPeriods(s, 2, <<>>) IN
              IF r.raised THEN NoTime
              ELSE IF r.periods = <<>> THEN NoTime
              ELSE [day |-> day, periods |-> SortedSeq(Range(r.periods))]

----------------------------------------------------------------------------
(* str.split, str.strip, str.join, str.replace, int() *)

\* index of the first occurrence of character c in s, 0 when absent
RECURSIVE FirstIndexFrom(_, _, _)
FirstIndexFrom(s, c, i) ==
    IF i > Len(s) THEN 0 ELSE IF s[i] = c THEN i ELSE FirstIndexFrom(s, c, i + 1)

FirstIndex(s, c) == FirstIndexFrom(s, c, 1)

\* s.split(c) for a one-character separator: always at least one piece
RECURSIVE Split(_, _)
Split(s, c) ==
    LET i == FirstIndex(s, c) IN
    IF i = 0 THEN <<s>>
    ELSE <<SubSeq(s, 1, i - 1)>> \o Split(SubSeq(s, i + 1, Len(s)), c)

\* s.strip(): the only whitespace of the model's alphabets is " "
RECURSIVE Strip(_)
Strip(s) ==
    IF Len(s) = 0 THEN s
    ELSE IF s[1] = " " THEN Strip(Tail(s))
    ELSE IF s[Len(s)] = " " THEN Strip(SubSeq(s, 1, Len(s) - 1))
    ELSE s

\* c.join(pieces)
RECURSIVE Join(_, _)
Join(pieces, c) ==
    IF Len(pieces) = 0 THEN <<>>
    ELSE IF Len(pieces) = 1 THEN pieces[1]
    ELSE pieces[1] \o <<c>> \o Join(Tail(pieces), c)

\* s.replace(c, '') for a one-character c
RECURSIVE Remove(_, _)
Remove(s, c) ==
    IF Len(s) = 0 THEN s
    ELSE IF s[1] = c THEN Remove(Tail(s), c)
    ELSE <<s[1]>> \o Remove(Tail(s), c)

\* int(s): surrounding whitespace is ignored, then one or more decimal
\* digits; anything else raises ValueError (ok = FALSE).  Signs and
\* underscores, which int() also reads, are not in the model's alphabets.
IntParse(s) ==
    LET u == Strip(s) IN
    IF Len(u) > 0 /\ \A i \in 1..Len(u) : IsDecimalChar(u[i])
    THEN [ok |-> TRUE, val |-> DecimalValue(u)]
    ELSE [ok |-> FALSE, val |-> 0]

----------------------------------------------------------------------------
(* parse_weeks *)

MAX_WEEKS == 16

OddMark  == <<"dan", "zhou">>     \* the modifier text for odd weeks
EvenMark == <<"shuang", "zhou">>     \* the modifier text for even weeks

\* lines 148-163 with the odd / even tests left out
RangePartWeeks_AllWeeks(part, sd) ==
    LET pieces == Split(part, "-") IN
    IF Len(pieces) # 2 \/ ~IntParse(pieces[1]).ok \/ ~IntParse(pieces[2]).ok THEN {}
    ELSE Max(1, IntParse(pieces[1]).val)..Min(MAX_WEEKS, IntParse(pieces[2]).val)

\* lines 148-163 without the clipping of lines 152-153
RangePartWeeks_Unclipped(part, sd) ==
    LET pieces == Split(part, "-") IN
    IF Len(pieces) # 2 \/ ~IntParse(pieces[1]).ok \/ ~IntParse(pieces[2]).ok THEN {}
    ELSE LET valid_range == IntParse(pieces[1]).val..IntParse(pieces[2]).val
         IN  IF sd = OddMark THEN {w \in valid_range : w % 2 = 1}
             ELSE IF sd = EvenMark THEN {w \in valid_range : w % 2 = 0}
             ELSE valid_range

\* lines 148-163: a part holding '-'
RangePartWeeks(part, sd) ==
    LET pieces == Split(part, "-") IN
    IF Len(pieces) # 2 THEN {}                        \* unpacking raises ValueError
    ELSE LET a == IntParse(pieces[1])
             b == IntParse(pieces[2])
         IN  IF ~a.ok \/ ~b.ok THEN {}                 \* int() raises ValueError
             ELSE LET start == Max(1, a.val)
                      end == Min(MAX_WEEKS, b.val)
                      valid_range == start..end
                  IN  IF sd = OddMark THEN {w \in valid_range : w % 2 = 1}
                      ELSE IF sd = EvenMark THEN {w \in valid_range : w % 2 = 0}
                      ELSE valid_range

\* lines 165-178 with the odd / even tests left out
SinglePartWeeks_Unfiltered(part, sd) ==
    LET n == IntParse(part) IN
    IF n.ok /\ n.val >= 1 /\ n.val <= MAX_WEEKS THEN {n.val} ELSE {}

\* lines 165-178: a part without '-'
SinglePartWeeks(part, sd) ==
    LET n == IntParse(part) IN
    IF ~n.ok THEN {}
    ELSE LET week == n.val
             is_odd == week % 2 = 1
         IN  IF week >= 1 /\ week <= MAX_WEEKS
             THEN IF sd = OddMark /\ is_odd THEN {week}
                  ELSE IF sd = EvenMark /\ ~is_odd THEN {week}
                  ELSE IF sd # OddMark /\ sd # EvenMark THEN {week}
                  ELSE {}
             ELSE {}

\* lines 146-178 with each part's weeks assigned instead of added
RECURSIVE PartsLoop_Overwrite(_, _, _, _)
PartsLoop_Overwrite(parts, i, sd, acc) ==
    IF i > Len(parts) THEN acc
    ELSE LET part == Strip(parts[i])
             got == IF "-" \in Range(part) THEN RangePartWeeks(part, sd)
                    ELSE SinglePartWeeks(part, sd)
         IN  PartsLoop_Overwrite(parts, i + 1, sd, got)

\* lines 146-178 with the ValueError of a part ending the loop
RECURSIVE PartsLoop_Abort(_, _, _, _)
PartsLoop_Abort(parts, i, sd, acc) ==
    IF i > Len(parts) THEN acc
    ELSE LET part == Strip(parts[i])
             pieces == Split(part, "-")
             raises == IF "-" \in Range(part)
                       THEN Len(pieces) # 2 \/ ~IntParse(pieces[1]).ok \/ ~IntParse(pieces[2]).ok
                       ELSE ~IntParse(part).ok
             got == IF "-" \in Range(part) THEN RangePartWeeks(part, sd)
                    ELSE SinglePartWeeks(part, sd)
         IN  IF raises THEN acc ELSE PartsLoop_Abort(parts, i + 1, sd, acc \cup got)

\* lines 146-178: the loop over the parts from index i on, accumulating
RECURSIVE PartsLoop(_, _, _, _)
PartsLoop(parts, i, sd, acc) ==
    IF i > Len(parts) THEN acc
    ELSE LET part == Strip(parts[i])
             got == IF "-" \in Range(part) THEN RangePartWeeks(part, sd)
                    ELSE SinglePartWeeks(part, sd)
         IN  PartsLoop(parts, i + 1, sd, acc \cup got)

\* lines 180-188 without the isdigit() test, an unreadable modifier standing
\* for week 1
ModifierFallback_FirstWeek(found, sd) ==
    IF found = {} /\ Len(sd) > 0
    THEN LET n == IntParse(sd) IN
         IF ~n.ok THEN {1}
         ELSE IF n.val >= 1 /\ n.val <= MAX_WEEKS THEN {n.val} ELSE {}
    ELSE found

\* lines 180-188: the modifier read as a week number when nothing was found
ModifierFallback(found, sd) ==
    IF found = {} /\ Len(sd) > 0 /\ IsDigit(sd)
    THEN LET n == IntParse(sd) IN
         IF n.ok /\ n.val >= 1 /\ n.val <= MAX_WEEKS THEN {n.val} ELSE {}
    ELSE found

\* lines 132-135 with the week clipped into the term instead of tested
SingleWeekModifier_Clipped(week) == {Min(MAX_WEEKS, Max(1, week))}

\* lines 132-135: the week a numeric modifier names, when it is in the term
SingleWeekModifier(week) ==
    IF week >= 1 /\ week <= MAX_WEEKS THEN {week} ELSE {}

\* None and '' are both the empty sequence: the code only tests truthiness
parse_weeks(wr, sd) ==
    IF Len(wr) = 0 /\ Len(sd) = 0 THEN {}
    ELSE IF Len(wr) = 0 /\ IsDigit(sd) /\ IntParse(sd).ok
         THEN SingleWeekModifier(IntParse(sd).val)
    ELSE LET found == IF Len(wr) > 0 THEN PartsLoop(Split(wr, ","), 1, sd, {}) ELSE {}
         IN  ModifierFallback(found, sd)

----------------------------------------------------------------------------
(* old_version: parse_week_numbers.  Nothing catches the ValueError of a   *)
(* malformed part, so the outcome is the returned set or raised = TRUE.    *)

\* whether the two-character text <<a, b>> occurs in s
HasPair(s, a, b) == \E i \in 1..(Len(s) - 1) : s[i] = a /\ s[i + 1] = b

\* lines 25-46: the loop over the parts from index i on
RECURSIVE OldPartsLoop(_, _, _, _, _)
OldPartsLoop(parts, i, is_odd, is_even, acc) ==
    IF i > Len(parts) THEN [raised |-> FALSE, weeks |-> acc]
    ELSE LET part_is_odd == is_odd \/ "dan" \in Range(parts[i])
             part_is_even == is_even \/ "shuang" \in Range(parts[i])
             part == Remove(Remove(parts[i], "dan"), "shuang")
         IN  IF "-" \in Range(part)
             THEN LET pieces == Split(part, "-") IN
                  IF Len(pieces) # 2 \/ ~IntParse(pieces[1]).ok \/ ~IntParse(pieces[2]).ok
                  THEN [raised |-> TRUE, weeks |-> {}]
                  ELSE LET full == IntParse(pieces[1]).val..IntParse(pieces[2]).val
                           got == IF part_is_odd THEN {w \in full : w % 2 = 1}
                                  ELSE IF part_is_even THEN {w \in full : w % 2 = 0}
                                  ELSE full
                       IN  OldPartsLoop(parts, i + 1, is_odd, is_even, acc \cup got)
             ELSE IF ~IntParse(part).ok THEN [raised |-> TRUE, weeks |-> {}]
             ELSE LET week_num == IntParse(part).val
                      keep == \/ ~part_is_odd /\ ~part_is_even
                              \/ part_is_odd /\ week_num % 2 = 1
                              \/ part_is_even /\ week_num % 2 = 0
                  IN  OldPartsLoop(parts, i + 1, is_odd, is_even,
                                   IF keep THEN acc \cup {week_num} ELSE acc)

parse_week_numbers(text) ==
    LET is_odd == HasPair(text, "dan", "zhou")
        is_even == HasPair(text, "shuang", "zhou")
    IN  OldPartsLoop(Split(Remove(text, "zhou"), ","), 1, is_odd, is_even, {})

----------------------------------------------------------------------------
(* Room identifiers: the regular expression of load_schedule_data *)

UpperLetters == {"A", "B", "C", "D"}
LowerLetters == {"a", "b", "c", "d"}

IsLetter(c) == c \in UpperLetters \cup LowerLetters   \* [A-Za-z]
IsReDigit(c) == c \in AsciiDigits                     \* \d and [0-9]
IsSpace(c) == c = " "                                 \* \s

CharAt(s, i) == IF i >= 1 /\ i <= Len(s) THEN s[i] ELSE "end"

\* first position from i on whose character is not a digit (greedy \d*)
RECURSIVE DigitsEnd(_, _)
DigitsEnd(s, i) == IF IsReDigit(CharAt(s, i)) THEN DigitsEnd(s, i + 1) ELSE i

\* first position from i on whose character is not whitespace (greedy \s*)
RECURSIVE SpacesEnd(_, _)
SpacesEnd(s, i) == IF IsSpace(CharAt(s, i)) THEN SpacesEnd(s, i + 1) ELSE i

\* first position from i on whose character is not a letter
RECURSIVE LettersEnd(_, _)
LettersEnd(s, i) == IF IsLetter(CharAt(s, i)) THEN LettersEnd(s, i + 1) ELSE i

\* Each alternative tried at position i: the position after the match, or
\* 0 when it does not match there.
\* [A-Za-z]\d{2}\s\d{3}
MatchLetterCodeNumber(s, i) ==
    IF /\ IsLetter(CharAt(s, i))
       /\ IsReDigit(CharAt(s, i + 1)) /\ IsReDigit(CharAt(s, i + 2))
       /\ IsSpace(CharAt(s, i + 3))
       /\ IsReDigit(CharAt(s, i + 4)) /\ IsReDigit(CharAt(s, i + 5))
       /\ IsReDigit(CharAt(s, i + 6))
    THEN i + 7 ELSE 0

\* [A-Za-z]\d+\s*\d*
MatchLetterDigits(s, i) ==
    IF IsLetter(CharAt(s, i)) /\ IsReDigit(CharAt(s, i + 1))
    THEN DigitsEnd(s, SpacesEnd(s, DigitsEnd(s, i + 1)))
    ELSE 0

\* [A-Za-z]{1,3}\d{1,3}: the letters are followed by a digit only when the
\* whole run of letters is taken, so the run must have 1 to 3 letters
MatchPrefixNumber(s, i) ==
    LET e == LettersEnd(s, i) IN
    IF e > i /\ e - i <= 3 /\ IsReDigit(CharAt(s, e))
    THEN Min(DigitsEnd(s, e), e + 3)
    ELSE 0

\* the alternation with its first two alternatives exchanged
MatchRoom_SecondFirst(s, i) ==
    IF MatchLetterDigits(s, i) # 0 THEN MatchLetterDigits(s, i)
    ELSE IF MatchLetterCodeNumber(s, i) # 0 THEN MatchLetterCodeNumber(s, i)
    ELSE MatchPrefixNumber(s, i)

\* the alternation: the first alternative that matches at i
MatchRoom(s, i) ==
    IF MatchLetterCodeNumber(s, i) # 0 THEN MatchLetterCodeNumber(s, i)
    ELSE IF MatchLetterDigits(s, i) # 0 THEN MatchLetterDigits(s, i)
    ELSE MatchPrefixNumber(s, i)

\* re.findall from position i on: the non-overlapping matches, left to right
RECURSIVE FindAllRooms(_, _)
FindAllRooms(s, i) ==
    IF i > Len(s) THEN <<>>
    ELSE LET e == MatchRoom(s, i) IN
         IF e = 0 THEN FindAllRooms(s, i + 1)
         ELSE <<SubSeq(s, i, e - 1)>> \o FindAllRooms(s, e)

\* lines 226-229 without the elif of line 230
ProcessedClassrooms_NoFallback(classroom_raw) ==
    {Strip(c) : c \in Range(FindAllRooms(classroom_raw, 1))}

\* lines 226-231: processed_classrooms for a non-empty, stripped cell
ProcessedClassrooms(classroom_raw) ==
    LET found_classrooms_in_cell == FindAllRooms(classroom_raw, 1) IN
    IF Len(found_classrooms_in_cell) > 0
    THEN {Strip(c) : c \in Range(found_classrooms_in_cell)}
    ELSE IF Len(classroom_raw) > 0 THEN {classroom_raw}
    ELSE {}

----------------------------------------------------------------------------
(* load_schedule_data: what one timetable row does to the index *)

\* the index with no key
EmptyIndex == [k \in {} |-> {}]

\* used_classrooms.get(key, set())
Occupied(used, k) == IF k \in DOMAIN used THEN used[k] ELSE {}

\* lines 236-242 with the rooms assigned to the key instead of added
AddRooms_Assign(used, keys, rooms) ==
    [k \in DOMAIN used \cup keys |-> IF k \in keys THEN rooms ELSE used[k]]

\* lines 236-242: every key of the row gets the row's rooms added
AddRooms(used, keys, rooms) ==
    [k \in DOMAIN used \cup keys |->
        Occupied(used, k) \cup (IF k \in keys THEN rooms ELSE {})]

\* the keys lines 236-239 visit for a decoded row
RowKeys(row_weeks, day, periods) ==
    { <<w, day, p>> : w \in {x \in row_weeks : x >= 1 /\ x <= MAX_WEEKS}, p \in Range(periods) }

\* the columns lines 214-217 read: row[6] to row[9]
ColumnsRead == 10

\* lines 214-242 with the cells of a short row read as empty
IngestRow_NoIndexError(used, row) ==
    IF Len(row.time_str) > 0 /\ Len(row.classroom_raw) > 0
    THEN LET info == parse_time_periods(row.time_str) IN
         IF info # NoTime
         THEN LET processed_classrooms == ProcessedClassrooms(row.classroom_raw) IN
              IF processed_classrooms = {} THEN used
              ELSE AddRooms(used,
                            RowKeys(parse_weeks(row.week_range, row.single_double),
                                    info.day, info.periods),
                            processed_classrooms)
         ELSE used
    ELSE used

\* lines 213-246: the index after one row.  A cell is the text of
\* str(value).strip(), or <<>> when the cell is empty (None in the code).
\* A row with fewer than ten cells raises IndexError at lines 214-217,
\* which line 244 catches before the index is touched.
IngestRow(used, row) ==
    IF row.n_cells < ColumnsRead THEN used
    ELSE IF Len(row.time_str) > 0 /\ Len(row.classroom_raw) > 0
    THEN LET info == parse_time_periods(row.time_str) IN
         IF info # NoTime
         THEN LET row_weeks == parse_weeks(row.week_range, row.single_double)
                  processed_classrooms == ProcessedClassrooms(row.classroom_raw)
              IN  IF processed_classrooms = {} THEN used
                  ELSE AddRooms(used, RowKeys(row_weeks, info.day, info.periods),
                                processed_classrooms)
         ELSE used
    ELSE used

----------------------------------------------------------------------------
(* format_and_write_sheet: the sort key, the displayed name, the cells *)

\* ord(c) for the characters of room names
CodePoint(c) ==
    CASE c = " " -> 32
      [] c = "," -> 44
      [] c = "-" -> 45
      [] c \in AsciiDigits -> 48 + DigitVal(c)
      [] c = "A" -> 65 [] c = "B" -> 66 [] c = "C" -> 67 [] c = "D" -> 68
      [] c = "a" -> 97 [] c = "b" -> 98 [] c = "c" -> 99 [] c = "d" -> 100
      [] c = "sup2" -> 178
      [] c = "shi" -> 19990
      [] c = "zhou" -> 21608
      [] c = "zuo" -> 24231
      [] c = "di" -> 31532

\* str.lower()
LowerChar(c) ==
    CASE c = "A" -> "a" [] c = "B" -> "b" [] c = "C" -> "c" [] c = "D" -> "d"
      [] OTHER -> c

RECURSIVE Lower(_)
Lower(s) == IF Len(s) = 0 THEN <<>> ELSE <<LowerChar(s[1])>> \o Lower(Tail(s))

\* first position from i on whose character is a digit [0-9], or Len + 1
RECURSIVE TextEnd(_, _)
TextEnd(s, i) ==
    IF i > Len(s) \/ IsReDigit(s[i]) THEN i ELSE TextEnd(s, i + 1)

\* the key of line 307 without the split: the lower-case name as one piece
NaturalKey_Lexical(x, i) ==
    <<[num |-> FALSE, n |-> 0, t |-> Lower(x), raises |-> FALSE]>>

\* the key of line 307, from position i on: re.split('([0-9]+)', x) gives
\* text, digits, text, ... ; a digit run becomes its number, a text piece
\* its lower-case form.  A text piece for which isdigit() holds is handed
\* to int(), which raises ValueError: raises = TRUE.
RECURSIVE NaturalKey(_, _)
NaturalKey(x, i) ==
    LET e == TextEnd(x, i)
        t == SubSeq(x, i, e - 1)
        first == IF IsDigit(t) THEN [num |-> TRUE, n |-> 0, t |-> <<>>, raises |-> TRUE]
                 ELSE [num |-> FALSE, n |-> 0, t |-> Lower(t), raises |-> FALSE]
    IN  IF e > Len(x) THEN <<first>>
        ELSE LET d == DigitsEnd(x, e) IN
             <<first, [num |-> TRUE, n |-> DecimalValue(SubSeq(x, e, d - 1)),
                       t |-> <<>>, raises |-> FALSE]>>
                 \o NaturalKey(x, d)

KeyRaises(x) ==
    LET key == NaturalKey(x, 1) IN \E i \in 1..Len(key) : key[i].raises

\* a < b for two str, by code points
RECURSIVE TextLess(_, _)
TextLess(a, b) ==
    IF Len(b) = 0 THEN FALSE
    ELSE IF Len(a) = 0 THEN TRUE
    ELSE IF a[1] # b[1] THEN CodePoint(a[1]) < CodePoint(b[1])
    ELSE TextLess(Tail(a), Tail(b))

\* a < b for two keys: list comparison, element by element
RECURSIVE KeyLess(_, _)
KeyLess(a, b) ==
    IF Len(b) = 0 THEN FALSE
    ELSE IF Len(a) = 0 THEN TRUE
    ELSE IF a[1] = b[1] THEN KeyLess(Tail(a), Tail(b))
    ELSE IF a[1].num THEN a[1].n < b[1].n
    ELSE TextLess(a[1].t, b[1].t)

\* a keyed name put into a list sorted by key, after the keys not greater
RECURSIVE InsertKeyed(_, _)
InsertKeyed(a, sorted) ==
    IF Len(sorted) = 0 THEN <<a>>
    ELSE IF KeyLess(a.key, sorted[1].key) THEN <<a>> \o sorted
    ELSE <<sorted[1]>> \o InsertKeyed(a, Tail(sorted))

\* sorted() on names paired with their keys
RECURSIVE SortKeyed(_)
SortKeyed(K) ==
    IF K = {} THEN <<>>
    ELSE LET a == CHOOSE x \in K : TRUE
         IN  InsertKeyed(a, SortKeyed(K \ {a}))

RECURSIVE NamesOf(_)
NamesOf(keyed) ==
    IF Len(keyed) = 0 THEN <<>> ELSE <<keyed[1].name>> \o NamesOf(Tail(keyed))

\* sorted(list(S), key=...).  Names with equal keys keep the arbitrary
\* order of the set; the room names of this model have distinct keys.
SortedClassrooms(S) ==
    NamesOf(SortKeyed({[key |-> NaturalKey(x, 1), name |-> x] : x \in S}))

\* sorted() on a list: stable, the names with equal keys keep their order
RECURSIVE SortKeyedList(_, _, _)
SortKeyedList(names, i, sorted) ==
    IF i > Len(names) THEN sorted
    ELSE SortKeyedList(names, i + 1,
             InsertKeyed([key |-> NaturalKey(names[i], 1), name |-> names[i]], sorted))

\* line 307 on list(classrooms_to_show) = names: every key is computed
\* first, and int() raising on one of them ends the call
SortOutcome(names) ==
    IF \E i \in 1..Len(names) : KeyRaises(names[i])
    THEN [raised |-> TRUE, list |-> <<>>]
    ELSE [raised |-> FALSE, list |-> NamesOf(SortKeyedList(names, 1, <<>>))]

\* list(S): the elements of a set in any order
ListsOf(S) == {f \in [1..Cardinality(S) -> S] : Range(f) = S}

\* re.sub(r'(shi[ABCD])(\d+)', r'\1 \2', name) from position i on
RECURSIVE InsertWingSpace(_, _)
InsertWingSpace(name, i) ==
    IF i > Len(name) THEN <<>>
    ELSE IF /\ name[i] = "shi"
            /\ CharAt(name, i + 1) \in UpperLetters
            /\ IsReDigit(CharAt(name, i + 2))
         THEN LET e == DigitsEnd(name, i + 2) IN
              <<name[i], name[i + 1], " ">> \o SubSeq(name, i + 2, e - 1)
                  \o InsertWingSpace(name, e)
         ELSE <<name[i]>> \o InsertWingSpace(name, i + 1)

\* lines 311-312: the name as displayed
ModifiedName(name) == InsertWingSpace(Remove(name, "zuo"), 1)

\* lines 309-313: the displayed names, in the order of the sorted list
RECURSIVE ModifiedClassrooms(_)
ModifiedClassrooms(names) ==
    IF Len(names) = 0 THEN <<>>
    ELSE <<ModifiedName(names[1])>> \o ModifiedClassrooms(Tail(names))

\* lines 307-315: the text of a cell showing the rooms S
CellValue(S) ==
    LET sorted_classrooms_raw == SortedClassrooms(S)
        modified_classrooms == ModifiedClassrooms(sorted_classrooms_raw)
    IN  Join(modified_classrooms, " ")

Days == 1..5         \* range(1, len(days))
Periods == 1..5      \* range(1, len(periods))

\* line 301 with the weekday and the period exchanged in the key
CellKey_Swapped(wk, day_idx, period_idx) == <<wk, period_idx, day_idx>>

\* line 301
CellKey(wk, day_idx, period_idx) == <<wk, day_idx, period_idx>>

\* line 304 with the subtraction left out
AvailableClassrooms_All(all, used_here) == all

\* line 304
AvailableClassrooms(all, used_here) == all \ used_here

\* sorted() on a set of str: ascending by code points
RECURSIVE SortByText(_)
SortByText(S) ==
    IF S = {} THEN <<>>
    ELSE LET least == CHOOSE x \in S : \A y \in S \ {x} : TextLess(x, y)
         IN  <<least>> \o SortByText(S \ {least})

\* main.py, get_available_classrooms: the room numbers of the roster that are
\* not in use, sorted by room number
get_available_classrooms(used, all) ==
    SortByText({room_number \in all : room_number \notin used})

\* lines 299-305: the rooms a cell shows
ClassroomsToShow(wk, day_idx, period_idx, show_occupied_flag, all, used) ==
    LET used_here == Occupied(used, CellKey(wk, day_idx, period_idx))
        available_classrooms == AvailableClassrooms(all, used_here)
    IN  IF show_occupied_flag THEN used_here ELSE available_classrooms

\* lines 299-320: the data cells, each with the rooms it shows and its text
SheetCells(wk, status, all, used) ==
    [c \in Days \X Periods |->
        LET classrooms_to_show ==
                ClassroomsToShow(wk, c[1], c[2], status = "occupied", all, used)
        IN  [classrooms_to_show |-> classrooms_to_show,
             cell_value |-> CellValue(classrooms_to_show)]]

\* what format_and_write_sheet hands to its caller besides the filled
\* sheet: it has no return statement, prints nothing and raises nothing
\* for a room that is in the index and not in the roster
SheetWarnings(wk, status, all, used) == {}

\* the cells whose sort raises ValueError
RaisingCells(wk, status, all, used) ==
    LET raising == {x \in all \cup UNION {used[k] : k \in DOMAIN used} : KeyRaises(x)} IN
    IF raising = {} THEN {}
    ELSE { c \in Days \X Periods :
             ClassroomsToShow(wk, c[1], c[2], status = "occupied", all, used)
                 \cap raising # {} }

\* the loop visits the cells day by day, period by period
CellBefore(c, d) == c[1] < d[1] \/ (c[1] = d[1] /\ c[2] < d[2])

----------------------------------------------------------------------------
(* Values of the variables a specification does not use. *)

IdleTime == time_str = <<>> /\ time_info = NoTime
IdleWeeks == week_range = <<>> /\ single_double = <<>> /\ weeks = {}
IdleMerge == results = <<>> /\ merged_results = [raised |-> FALSE, list |-> <<>>]
IdleOld ==
    /\ week_text = <<>> /\ week_numbers = [raised |-> FALSE, weeks |-> {}]
    /\ IdleMerge
IdleLoad ==
    all_classrooms = {} /\ used_classrooms = EmptyIndex /\ rows_read = {} /\ n_rows = 0
IdleSheet == selected_week = 0 /\ status_text = "" /\ sheet = <<>>
IdleSort == cell_rooms = {} /\ cell_sorted = [raised |-> FALSE, list |-> <<>>]
IdleRooms == room_cell = <<>> /\ room_ids = {}
IdleFiles ==
    /\ source_files = <<>> /\ load_result = <<>> /\ report_args = <<>>
    /\ pairs_left = <<>> /\ sheetnames = <<>> /\ saved_files = {}
IdleMain ==
    /\ json_file = <<>> /\ xlsx_file = <<>> /\ room_config = {}
    /\ query_return = <<>> /\ week_answer = <<>> /\ exported = <<>>
IdleProgram == IdleLoad /\ IdleSheet
programVars == <<loadVars, sheetVars>>

\* str(n) for 0 <= n
DigitChar(d) == CHOOSE c \in AsciiDigits : DigitVal(c) = d

RECURSIVE Str(_)
Str(n) == IF n < 10 THEN <<DigitChar(n)>> ELSE Str(n \div 10) \o <<DigitChar(n % 10)>>

----------------------------------------------------------------------------
(* old_version: merge_classroom_results.  A result is the text             *)
(* "di" weeks "zhou" " " classroom, the weeks being decimal numbers        *)
(* separated by commas.  The outcome is the returned list, or raised.      *)

\* s.split(c, 1): the text before and after the first c, or s alone
SplitFirst(s, c) ==
    LET i == FirstIndex(s, c) IN
    IF i = 0 THEN <<s>> ELSE <<SubSeq(s, 1, i - 1), SubSeq(s, i + 1, Len(s))>>

\* lines 87-91: the classroom and the week set of one result; raised when
\* the unpacking or an int() raises ValueError
ParseResult(result) ==
    LET pieces == SplitFirst(result, " ") IN
    IF Len(pieces) # 2 THEN [raised |-> TRUE, classroom |-> <<>>, weeks |-> {}]
    ELSE LET weeks_part == Remove(Remove(pieces[1], "di"), "zhou")
             numbers == Split(weeks_part, ",")
         IN  IF \E i \in 1..Len(numbers) : ~IntParse(numbers[i]).ok
             THEN [raised |-> TRUE, classroom |-> <<>>, weeks |-> {}]
             ELSE [raised |-> FALSE, classroom |-> pieces[2],
                   weeks |-> {IntParse(numbers[i]).val : i \in 1..Len(numbers)}]

\* lines 85-97: the dictionary classroom -> weeks after the results from
\* index i on, starting from classroom_weeks
RECURSIVE ClassroomWeeks(_, _, _)
ClassroomWeeks(rs, i, classroom_weeks) ==
    IF i > Len(rs) THEN [raised |-> FALSE, classroom_weeks |-> classroom_weeks]
    ELSE LET r == ParseResult(rs[i]) IN
         IF r.raised THEN [raised |-> TRUE, classroom_weeks |-> classroom_weeks]
         ELSE ClassroomWeeks(rs, i + 1,
                  [c \in DOMAIN classroom_weeks \cup {r.classroom} |->
                      IF c # r.classroom THEN classroom_weeks[c]
                      ELSE IF c \in DOMAIN classroom_weeks
                           THEN classroom_weeks[c] \cup r.weeks
                           ELSE r.weeks])

\* lines 111, 113 printing the start of the run only
IntervalText_StartOnly(start, end) == Str(start)

\* lines 111, 113: f"{start}-{end}" if start != end else str(start)
IntervalText(start, end) ==
    IF start # end THEN Str(start) \o <<"-">> \o Str(end) ELSE Str(start)

\* lines 107-113 with the test of line 108 never true: every week a run
RECURSIVE IntervalsFrom_NoRuns(_, _, _, _)
IntervalsFrom_NoRuns(weeks_list, i, start, end) ==
    IF i > Len(weeks_list) THEN <<IntervalText(start, end)>>
    ELSE <<IntervalText(start, end)>>
             \o IntervalsFrom_NoRuns(weeks_list, i + 1, weeks_list[i], weeks_list[i])

\* lines 107-113: the loop over weeks_list from index i on, the current
\* run being start..end
RECURSIVE IntervalsFrom(_, _, _, _)
IntervalsFrom(weeks_list, i, start, end) ==
    IF i > Len(weeks_list) THEN <<IntervalText(start, end)>>
    ELSE IF weeks_list[i] = end + 1
         THEN IntervalsFrom(weeks_list, i + 1, start, weeks_list[i])
         ELSE <<IntervalText(start, end)>>
                  \o IntervalsFrom(weeks_list, i + 1, weeks_list[i], weeks_list[i])

\* lines 103-117: the merged text of one classroom; its week set is never
\* empty, int() having read at least one number
MergedText(classroom, week_set) ==
    LET weeks_list == SortedSeq(week_set)
        intervals == IntervalsFrom(weeks_list, 2, weeks_list[1], weeks_list[1])
        weeks_str == Join(intervals, ",")
    IN  <<"di">> \o weeks_str \o <<"zhou", " ">> \o classroom

merge_classroom_results(rs) ==
    LET cw == ClassroomWeeks(rs, 1, [c \in {} |-> {}]) IN
    IF cw.raised THEN [raised |-> TRUE, list |-> <<>>]
    ELSE [raised |-> FALSE,
          list |-> SortByText({ MergedText(c, cw.classroom_weeks[c]) :
                                  c \in DOMAIN cw.classroom_weeks })]

\* read_excel_cells, lines 160-164: the result text of a parsed course
RECURSIVE WeekTexts(_)
WeekTexts(weeks_list) ==
    IF Len(weeks_list) = 0 THEN <<>>
    ELSE <<Str(weeks_list[1])>> \o WeekTexts(Tail(weeks_list))

ResultText(week_set, classroom) ==
    LET weeks_list == SortedSeq(week_set)
        weeks_str == Join(WeekTexts(weeks_list), ",")
    IN  <<"di">> \o weeks_str \o <<"zhou", " ">> \o classroom

----------------------------------------------------------------------------
(* SpecTime: parse_time_periods called on every token over TimeChars of    *)
(* at most MaxTimeLen characters.                                          *)

MaxTimeLen == 5

TimeChars == {"0", "1", "2", "6", "7", "x", "sup2"}

TimeStrs == UNION {[1..n -> TimeChars] : n \in 0..MaxTimeLen}

InitTime ==
    /\ pc = "call"
    /\ time_str \in TimeStrs
    /\ time_info = NoTime
    /\ IdleWeeks /\ IdleOld /\ IdleProgram
    /\ IdleSort /\ IdleRooms /\ IdleFiles /\ IdleMain

CallParseTimePeriods ==
    /\ pc = "call"
    /\ time_info' = parse_time_periods(time_str)
    /\ pc' = "return"
    /\ UNCHANGED <<time_str, weekVars, oldVars, programVars, sortVars, roomVars, fileVars, mainVars>>

NextTime == CallParseTimePeriods

SpecTime == InitTime /\ [][NextTime]_vars

----------------------------------------------------------------------------
(* SpecWeeks: parse_weeks called on every expression of at most MaxParts   *)
(* comma-separated parts drawn from WeekParts, with every modifier of      *)
(* Modifiers.                                                              *)

MaxParts == 2

SingleNums == {0, 1, 2, 16, 17}
RangeStarts == {0, 1, 4, 17}
RangeEnds == {0, 8, 16, 20}

\* parts that are neither an integer nor integer-integer
MalformedParts ==
    { <<>>, <<"x">>, <<"1", "-">>, <<"1", "-", "2", "-", "3">>, <<"sup2">> }

\* parts carrying their own odd / even mark (the inline dialect)
InlineParts ==
    { <<"1", "-", "8", "dan">>, <<"9", "-", "1", "6", "shuang">>, <<"3", "dan">>, <<"4", "shuang">> }

WeekParts ==
    {Str(n) : n \in SingleNums}
        \cup {Str(a) \o <<"-">> \o Str(b) : a \in RangeStarts, b \in RangeEnds}
        \cup {<<" ", "3", " ">>, <<"2", " ", "-", " ", "5">>}
        \cup MalformedParts \cup InlineParts

PartSeqs == UNION {[1..n -> WeekParts] : n \in 0..MaxParts}

WeekRanges == {Join(ps, ",") : ps \in PartSeqs}

Modifiers ==
    { <<>>, OddMark, EvenMark, <<"0">>, <<"5">>, <<"2", "0">>, <<"x">>, <<"sup2">> }

InitWeeks ==
    /\ pc = "call"
    /\ week_range \in WeekRanges
    /\ single_double \in Modifiers
    /\ weeks = {}
    /\ IdleTime /\ IdleOld /\ IdleProgram
    /\ IdleSort /\ IdleRooms /\ IdleFiles /\ IdleMain

CallParseWeeks ==
    /\ pc = "call"
    /\ weeks' = parse_weeks(week_range, single_double)
    /\ pc' = "return"
    /\ UNCHANGED <<week_range, single_double, timeVars, oldVars, programVars, sortVars, roomVars, fileVars, mainVars>>

NextWeeks == CallParseWeeks

SpecWeeks == InitWeeks /\ [][NextWeeks]_vars

----------------------------------------------------------------------------
(* SpecOld: old_version parse_week_numbers called on the same expressions  *)
(* followed by the week mark, bare or with an odd / even mark.             *)

WeekSuffixes == { <<>>, <<"zhou">>, OddMark, EvenMark }

InitOld ==
    /\ pc = "call"
    /\ week_text \in {wr \o sfx : wr \in WeekRanges, sfx \in WeekSuffixes}
    /\ week_numbers = [raised |-> FALSE, weeks |-> {}]
    /\ IdleMerge /\ IdleTime /\ IdleWeeks /\ IdleProgram
    /\ IdleSort /\ IdleRooms /\ IdleFiles /\ IdleMain

CallParseWeekNumbers ==
    /\ pc = "call"
    /\ week_numbers' = parse_week_numbers(week_text)
    /\ pc' = "return"
    /\ UNCHANGED <<week_text, mergeVars, timeVars, weekVars, programVars, sortVars, roomVars, fileVars, mainVars>>

NextOld == CallParseWeekNumbers

SpecOld == InitOld /\ [][NextOld]_vars

----------------------------------------------------------------------------
(* SpecMerge: old_version merge_classroom_results called on the results    *)
(* read_excel_cells builds: one course with any non-empty set of weeks of  *)
(* the term, 1..MAX_WEEKS, or two courses, the first with any non-empty    *)
(* set of weeks up to MaxPairWeek.                                         *)

MaxPairWeek == 6

A_zuo_7 == <<"A", "zuo", "7">>
B_zuo_12 == <<"B", "zuo", "1", "2">>

\* parse_classroom_info returns None for an empty week set (lines 72-73)
WeekSets(last) == (SUBSET (1..last)) \ {{}}

SecondCourses ==
    { [weeks |-> S, classroom |-> c] : S \in {{2}, {3, 4, 5}, {1, 9}}, c \in {A_zuo_7, B_zuo_12} }

InitMerge ==
    /\ pc = "call"
    /\ \/ \E S \in WeekSets(MAX_WEEKS) : results = <<ResultText(S, A_zuo_7)>>
       \/ \E S \in WeekSets(MaxPairWeek), second \in SecondCourses :
             results = <<ResultText(S, A_zuo_7), ResultText(second.weeks, second.classroom)>>
    /\ merged_results = [raised |-> FALSE, list |-> <<>>]
    /\ week_text = <<>> /\ week_numbers = [raised |-> FALSE, weeks |-> {}]
    /\ IdleTime /\ IdleWeeks /\ IdleProgram
    /\ IdleSort /\ IdleRooms /\ IdleFiles /\ IdleMain

\* read_excel_cells, line 170
CallMergeClassroomResults ==
    /\ pc = "call"
    /\ merged_results' = merge_classroom_results(results)
    /\ pc' = "return"
    /\ UNCHANGED <<results, week_text, week_numbers, timeVars, weekVars, programVars, sortVars, roomVars, fileVars, mainVars>>

NextMerge == CallMergeClassroomResults

SpecMerge == InitMerge /\ [][NextMerge]_vars

----------------------------------------------------------------------------
(* SpecSort: line 307 of format_and_write_sheet on every set of at most    *)
(* MaxShown names of RoomNames, listed in any order.                       *)

MaxShown == 4

RoomNames ==
    { <<"A", "1">>, <<"a", "1">>, <<"A">>, <<"A", "1", "B">>,
      <<"B", "2">>, <<"B", "1", "0">>, <<"b", "3">>,
      <<"1", "0">>, <<"2">>, <<"sup2">> }

InitSort ==
    /\ pc = "call"
    /\ cell_rooms \in {S \in SUBSET RoomNames : Cardinality(S) <= MaxShown}
    /\ cell_sorted = [raised |-> FALSE, list |-> <<>>]
    /\ IdleTime /\ IdleWeeks /\ IdleOld /\ IdleProgram /\ IdleRooms /\ IdleFiles /\ IdleMain

\* line 307
CallSorted ==
    /\ pc = "call"
    /\ \E names \in ListsOf(cell_rooms) : cell_sorted' = SortOutcome(names)
    /\ pc' = "return"
    /\ UNCHANGED <<cell_rooms, timeVars, weekVars, oldVars, programVars, roomVars, fileVars, mainVars>>

NextSort == CallSorted

SpecSort == InitSort /\ [][NextSort]_vars

----------------------------------------------------------------------------
(* SpecRooms: lines 215 and 226-231 of load_schedule_data on every room    *)
(* cell made of at most MaxTokens tokens                                   *)

MaxTokens == 5

\* what a room cell is made of: letters, digit runs, whitespace, a comma
\* and a character outside ASCII
CellTokens ==
    { <<"A">>, <<"b">>, <<"1">>, <<"1", "2">>, <<" ">>, <<",">>, <<"shi">> }

RECURSIVE CellTexts(_)
CellTexts(n) ==
    IF n = 0 THEN {<<>>}
    ELSE LET shorter == CellTexts(n - 1) IN
         shorter \cup {s \o t : s \in shorter, t \in CellTokens}

InitRooms ==
    /\ pc = "call"
    /\ room_cell \in CellTexts(MaxTokens)
    /\ room_ids = {}
    /\ IdleTime /\ IdleWeeks /\ IdleOld /\ IdleProgram /\ IdleSort /\ IdleFiles /\ IdleMain

\* line 215 and lines 220-231 for one row whose time decodes: the cell is
\* stripped; an empty one skips the row
ExtractRooms ==
    /\ pc = "call"
    /\ LET classroom_raw == Strip(room_cell) IN
       IF Len(classroom_raw) = 0
       THEN /\ room_ids' = {}
            /\ pc' = "skipped"
       ELSE /\ room_ids' = ProcessedClassrooms(classroom_raw)
            /\ pc' = "return"
    /\ UNCHANGED <<room_cell, timeVars, weekVars, oldVars, programVars,
                   sortVars, fileVars, mainVars>>

NextRooms == ExtractRooms

SpecRooms == InitRooms /\ [][NextRooms]_vars

----------------------------------------------------------------------------
(* SpecReports: load_schedule_data on the files of a source directory and  *)
(* the two report generators that call it                                  *)

MaxCampuses == 2

\* the keys of CAMPUS_MAP, in the order sorted() gives file names
CAMPUS_MAP == <<"TianXin", "XiaoXiang", "XingLin", "YueLuShan">>

Basenames == {CAMPUS_MAP[i] : i \in 1..MaxCampuses}

\* a file of the directory: absent; present under a name whose letter case
\* differs ("X.CSV": os.listdir shows it, open("X.csv") does not find it);
\* present and unreadable; present and read
CsvStates == {"absent", "other case", "unreadable", "empty", "names"}
XlsxStates == {"absent", "other case", "unreadable", "rows"}

\* find_file_pairs: the basenames that have both files, sorted
RECURSIVE PairsFrom(_, _)
PairsFrom(files, i) ==
    IF i > MaxCampuses THEN <<>>
    ELSE LET basename == CAMPUS_MAP[i] IN
         IF files[basename].csv # "absent" /\ files[basename].xlsx # "absent"
         THEN <<basename>> \o PairsFrom(files, i + 1)
         ELSE PairsFrom(files, i + 1)

find_file_pairs(files) == PairsFrom(files, 1)

\* load_classrooms: the names of the file; set() when open() or the reader
\* raises (lines 74-79) and when the file holds no name
load_classrooms(csv) == IF csv = "names" THEN {"classrooms"} ELSE {}

\* load_schedule_data without the check of lines 199-201
load_schedule_data_NoRosterCheck(files) ==
    IF files.xlsx = "rows" THEN <<"all_classrooms", "used_classrooms">>
    ELSE <<"None", "None">>

\* load_schedule_data: the pair it returns, the two objects named, or
\* (None, None) when the roster is empty (lines 199-201) or load_workbook
\* or the sheet raise (lines 253-258)
load_schedule_data(files) ==
    LET all_rooms == load_classrooms(files.csv) IN
    IF all_rooms = {} THEN <<"None", "None">>
    ELSE IF files.xlsx = "rows" THEN <<"all_classrooms", "used_classrooms">>
    ELSE <<"None", "None">>

\* the test of lines 334 and 390
IsNoneResult(result) == result[1] = "None" \/ result[2] = "None"

StatusFilename(show_occupied) == IF show_occupied THEN "occupied" ELSE "empty"

\* the sheets create_sheet has added when the loop of line 346 stops after
\* n weeks
RECURSIVE WeekSheets(_, _)
WeekSheets(basename, n) ==
    IF n = 0 THEN <<>>
    ELSE Append(WeekSheets(basename, n - 1), [campus |-> basename, week |-> n])

InitReports ==
    /\ pc = "menu"
    /\ source_files \in [Basenames -> [csv : CsvStates, xlsx : XlsxStates]]
    /\ load_result = [b \in Basenames |-> <<>>]
    /\ report_args = <<>>
    /\ pairs_left = <<>>
    /\ sheetnames = <<>>
    /\ saved_files = {}
    /\ IdleTime /\ IdleWeeks /\ IdleOld /\ IdleProgram /\ IdleSort /\ IdleRooms
    /\ IdleMain

\* process_excel_all_weeks(basename, show_occupied): format_and_write_sheet
\* completes for every week or raises in one of them (int() at line 307),
\* and save writes the file or raises (lines 359-363)
process_excel_all_weeks(basename, show_occupied) ==
    /\ pc = "menu"
    /\ report_args' = [basename |-> basename, show_occupied |-> show_occupied]
    /\ LET result == load_schedule_data(source_files[basename]) IN
       /\ load_result' = [load_result EXCEPT ![basename] = result]
       /\ IF IsNoneResult(result)
          THEN /\ pc' = "returned"
               /\ UNCHANGED <<sheetnames, saved_files>>
          ELSE \/ \E week \in 1..MAX_WEEKS :
                    /\ sheetnames' = WeekSheets(basename, week)
                    /\ pc' = "raised"
                    /\ UNCHANGED saved_files
               \/ \E saved \in BOOLEAN :
                    /\ sheetnames' = WeekSheets(basename, MAX_WEEKS)
                    /\ saved_files' =
                          IF saved
                          THEN saved_files \cup
                                 {[name |-> basename,
                                   status |-> StatusFilename(show_occupied),
                                   sheets |-> sheetnames']}
                          ELSE saved_files
                    /\ pc' = "returned"
    /\ UNCHANGED <<source_files, pairs_left, timeVars, weekVars, oldVars,
                   programVars, sortVars, roomVars, mainVars>>

\* generate_single_week_excel, lines 373-383: the pairs are listed; with
\* none the call returns
StartSingleWeek(selected_wk, show_occupied) ==
    /\ pc = "menu"
    /\ report_args' = [selected_week |-> selected_wk,
                       show_occupied |-> show_occupied]
    /\ pairs_left' = find_file_pairs(source_files)
    /\ pc' = IF pairs_left' = <<>> THEN "returned" ELSE "campuses"
    /\ UNCHANGED <<source_files, load_result, sheetnames, saved_files,
                   timeVars, weekVars, oldVars, programVars, sortVars,
                   roomVars, mainVars>>

\* lines 385-397: one campus of the loop
LoadCampus ==
    /\ pc = "campuses"
    /\ pairs_left # <<>>
    /\ LET basename == Head(pairs_left)
           result == load_schedule_data(source_files[basename])
       IN  /\ load_result' = [load_result EXCEPT ![basename] = result]
           /\ pairs_left' = Tail(pairs_left)
           /\ IF IsNoneResult(result)
              THEN UNCHANGED <<pc, sheetnames>>
              ELSE /\ sheetnames' =
                         Append(sheetnames,
                                [campus |-> basename,
                                 week |-> report_args.selected_week])
                   /\ \E raised \in BOOLEAN :
                         pc' = IF raised THEN "raised" ELSE "campuses"
    /\ UNCHANGED <<source_files, report_args, saved_files, timeVars, weekVars,
                   oldVars, programVars, sortVars, roomVars, mainVars>>

\* lines 399-417: no sheet, no file; else save writes the file or raises
SaveSingleWeek ==
    /\ pc = "campuses"
    /\ pairs_left = <<>>
    /\ pc' = "returned"
    /\ IF sheetnames = <<>>
       THEN UNCHANGED saved_files
       ELSE \E saved \in BOOLEAN :
              saved_files' =
                  IF saved
                  THEN saved_files \cup
                         {[name |-> "Week",
                           status |-> StatusFilename(report_args.show_occupied),
                           sheets |-> sheetnames]}
                  ELSE saved_files
    /\ UNCHANGED <<source_files, load_result, report_args, pairs_left,
                   sheetnames, timeVars, weekVars, oldVars, programVars,
                   sortVars, roomVars, mainVars>>

ReportWeeks == {1, MAX_WEEKS}

NextReports ==
    \/ \E basename \in Basenames, show_occupied \in BOOLEAN :
          process_excel_all_weeks(basename, show_occupied)
    \/ \E selected_wk \in ReportWeeks, show_occupied \in BOOLEAN :
          StartSingleWeek(selected_wk, show_occupied)
    \/ LoadCampus
    \/ SaveSingleWeek

SpecReports == InitReports /\ [][NextReports]_vars

----------------------------------------------------------------------------
(* SpecMain: main.py.  A Python value whose type matters is a record with  *)
(* its type; a text is a sequence of characters, "nl" being the newline.   *)

PyNone == [type |-> "NoneType"]
PyInt(n) == [type |-> "int", value |-> n]
PyStr(text) == [type |-> "str", text |-> text]
PyList(items) == [type |-> "list", items |-> items]
PyTuple(items) == [type |-> "tuple", items |-> items]

\* bool(value) for the values above
Truthy(value) ==
    CASE value.type = "NoneType" -> FALSE
      [] value.type = "int" -> value.value # 0
      [] value.type = "str" -> value.text # <<>>
      [] OTHER -> value.items # <<>>

\* s.replace(sub, '')
RECURSIVE RemoveSub(_, _)
RemoveSub(s, sub) ==
    IF Len(s) < Len(sub) THEN s
    ELSE IF SubSeq(s, 1, Len(sub)) = sub
         THEN RemoveSub(SubSeq(s, Len(sub) + 1, Len(s)), sub)
    ELSE <<s[1]>> \o RemoveSub(Tail(s), sub)

\* re.search(r'[A-D]seat\d+', text) from position i on, seat being "zuo":
\* the match, <<>> when there is none
RECURSIVE SearchClassroom(_, _)
SearchClassroom(text, i) ==
    IF i > Len(text) THEN <<>>
    ELSE IF /\ text[i] \in {"A", "B", "C", "D"}
            /\ CharAt(text, i + 1) = "zuo"
            /\ IsReDigit(CharAt(text, i + 2))
         THEN SubSeq(text, i, DigitsEnd(text, i + 2) - 1)
    ELSE SearchClassroom(text, i + 1)

\* re.search(r'(\d+)-(\d+)week', text) from position i on, week being
\* "zhou": the two groups, <<>> when there is none
RECURSIVE SearchWeeks(_, _)
SearchWeeks(text, i) ==
    IF i > Len(text) THEN <<>>
    ELSE LET e1 == DigitsEnd(text, i)
             e2 == DigitsEnd(text, e1 + 1)
         IN  IF /\ e1 > i /\ CharAt(text, e1) = "-"
                /\ e2 > e1 + 1 /\ CharAt(text, e2) = "zhou"
             THEN <<SubSeq(text, i, e1 - 1), SubSeq(text, e1 + 1, e2 - 1)>>
             ELSE SearchWeeks(text, i + 1)

\* parse_classroom_info (lines 10-32) on a str: the list of the dict it
\* returns, empty when it returns None
parse_classroom_info(text) ==
    LET classroom == SearchClassroom(text, 1)
        week_info == SearchWeeks(text, 1)
    IN  IF classroom = <<>> THEN <<>>
        ELSE IF week_info = <<>> THEN <<>>
        ELSE << [type |-> "dict",
                 start_week |-> DecimalValue(week_info[1]),
                 end_week |-> DecimalValue(week_info[2]),
                 classroom |-> classroom] >>

\* line 73: the text of a result
InfoText(info) ==
    <<"di">> \o Str(info.start_week) \o <<"-">> \o Str(info.end_week)
        \o <<"zhou", " ">> \o info.classroom

\* lines 69-75 over the courses of one cell
RECURSIVE CourseInfos(_, _)
CourseInfos(courses, i) ==
    IF i > Len(courses) THEN <<>>
    ELSE parse_classroom_info(courses[i]) \o CourseInfos(courses, i + 1)

\* lines 63-75 for one cell
CellInfos(cell_val) ==
    IF ~Truthy(cell_val) THEN <<>>
    ELSE IF cell_val.type # "str" THEN <<>>
    ELSE CourseInfos(
             Split(RemoveSub(cell_val.text, <<"_", "x", "0", "0", "0", "D", "_">>),
                   "nl"), 1)

\* line 62: islice(column_cells, 0, None, 10) from the i-th cell on
RECURSIVE SampledInfos(_, _)
SampledInfos(column_cells, i) ==
    IF i > Len(column_cells) THEN <<>>
    ELSE CellInfos(column_cells[i]) \o SampledInfos(column_cells, i + 10)

RECURSIVE InfoTexts(_, _)
InfoTexts(infos, i) ==
    IF i > Len(infos) THEN <<>>
    ELSE <<InfoText(infos[i])>> \o InfoTexts(infos, i + 1)

\* the messages of lines 81, 84 and 86
NothingFound == <<"nothing found">>
ErrorMessage == <<"error">>

\* line 81: return results, (classroom_infos if results else ([...], []))
ReturnOfLine81(result_texts, classroom_infos) ==
    << PyList(result_texts),
       IF result_texts # <<>> THEN PyList(classroom_infos)
       ELSE PyTuple(<<PyList(<<NothingFound>>), PyList(<<>>)>>) >>

\* read_excel_cells(filename, base_row, col): the column read from base_row
\* down is file.columns[slot], slot being the (day, period) of the row and
\* column
read_excel_cells(file, slot) ==
    IF file.state # "workbook"
    THEN <<PyList(<<ErrorMessage>>), PyList(<<>>)>>
    ELSE LET classroom_infos == SampledInfos(file.columns[slot], 1)
         IN  ReturnOfLine81(InfoTexts(classroom_infos, 1), classroom_infos)

\* get_classrooms_by_week (lines 88-94): the sorted rooms, or raised when
\* an element cannot be indexed by 'start_week' (TypeError)
get_classrooms_by_week(classroom_infos, week) ==
    IF \E n \in 1..Len(classroom_infos.items) :
           classroom_infos.items[n].type # "dict"
    THEN [raised |-> TRUE, rooms |-> <<>>]
    ELSE [raised |-> FALSE,
          rooms |-> SortByText(
              { classroom_infos.items[n].classroom :
                  n \in { m \in 1..Len(classroom_infos.items) :
                            /\ classroom_infos.items[m].start_week <= week
                            /\ week <= classroom_infos.items[m].end_week } })]

\* load_classroom_info (lines 96-113): the room numbers of the dict
load_classroom_info(file) ==
    IF file.state \in {"absent", "malformed"} THEN {} ELSE file.room_numbers

\* lines 181-192: time_slots
TimeSlots(file) ==
    [slot \in (1..5) \X (1..5) |->
        LET classroom_infos == read_excel_cells(file, slot)[2] IN
        IF classroom_infos.type = "list" THEN classroom_infos ELSE PyList(<<>>)]

DataError == <<"data error">>

\* lines 220-234: the value of one cell
ExportCell(classroom_infos, week, all) ==
    LET used == get_classrooms_by_week(classroom_infos, week) IN
    IF used.raised THEN DataError
    ELSE Join(get_available_classrooms(Range(used.rooms), all), " ")

\* lines 199-234: the data cells of the 16 sheets
ExportSheets(file, all) ==
    LET time_slots == TimeSlots(file) IN
    [week \in 1..16 |->
        [slot \in (1..5) \X (1..5) |-> ExportCell(time_slots[slot], week, all)]]

Room_A101 == <<"A", "zuo", "1", "0", "1">>

Course_A101 == Room_A101 \o <<" ", "1", "-", "1", "6", "zhou">>
Course_B12_A7 ==
    B_zuo_12 \o <<" ", "3", "-", "8", "zhou", "nl">>
        \o <<"A", "zuo", "_", "x", "0", "0", "0", "D", "_", "7", " ">>
        \o <<"9", "-", "1", "2", "zhou">>
Course_NoWeeks == Room_A101
Course_NoRoom == <<"1", "-", "1", "6", "zhou">>

CellValues ==
    { PyNone, PyInt(5), PyStr(<<>>), PyStr(Course_A101), PyStr(Course_B12_A7),
      PyStr(Course_NoWeeks), PyStr(Course_NoRoom) }

NineEmpty == [n \in 1..9 |-> PyNone]

\* the values of the cells next to a first cell
LaterValues == { PyNone, PyStr(Course_A101), PyStr(Course_B12_A7) }

\* a column: empty, one cell, two cells (the second is not sampled), or
\* eleven cells (the first and the eleventh are sampled)
Columns ==
    {<<>>} \cup {<<v>> : v \in CellValues}
        \cup {<<v, w>> : v, w \in LaterValues}
        \cup {<<v>> \o NineEmpty \o <<w>> : v, w \in LaterValues}

OtherColumns == { <<>>, <<PyStr(Course_A101)>> }

XlsxFiles ==
    { [state |-> st, columns |-> <<>>] : st \in {"absent", "unreadable"} }
        \cup { [state |-> "workbook",
                columns |-> [slot \in (1..5) \X (1..5) |->
                                IF slot = <<1, 1>> THEN first ELSE other]] :
                  first \in Columns, other \in OtherColumns }

JsonFiles ==
    { [state |-> st, room_numbers |-> {}] :
          st \in {"absent", "malformed", "unreadable"} }
        \cup { [state |-> "rooms", room_numbers |-> rooms] :
                  rooms \in {{}, {Room_A101, A_zuo_7, B_zuo_12}} }

InitMain ==
    /\ pc = "start"
    /\ json_file \in JsonFiles
    /\ xlsx_file \in XlsxFiles
    /\ room_config = {}
    /\ query_return = <<>>
    /\ week_answer = <<>>
    /\ exported = <<>>
    /\ IdleTime /\ IdleWeeks /\ IdleOld /\ IdleProgram /\ IdleSort /\ IdleRooms
    /\ IdleFiles

\* line 258: an exception other than the two load_classroom_info catches
\* ends main()
LoadClassroomInfo ==
    /\ pc = "start"
    /\ IF json_file.state = "unreadable"
       THEN pc' = "crashed" /\ UNCHANGED room_config
       ELSE pc' = "menu" /\ room_config' = load_classroom_info(json_file)
    /\ UNCHANGED <<json_file, xlsx_file, query_return, week_answer, exported,
                   timeVars, weekVars, oldVars, programVars, sortVars, roomVars,
                   fileVars>>

\* choice 1, lines 273-299, for a valid day and period
ManualQuery(slot) ==
    /\ pc = "menu"
    /\ query_return' = read_excel_cells(xlsx_file, slot)
    /\ pc' = IF Truthy(query_return'[2]) /\ room_config # {}
             THEN "week prompt" ELSE "menu"
    /\ week_answer' = <<>>
    /\ UNCHANGED <<json_file, xlsx_file, room_config, exported,
                   timeVars, weekVars, oldVars, programVars, sortVars, roomVars,
                   fileVars>>

\* lines 302-331 for a week in 1..16: a TypeError is not caught by the
\* handlers of lines 333 and 340 and ends main()
QueryWeek(current_week) ==
    /\ pc = "week prompt"
    /\ LET used == get_classrooms_by_week(query_return[2], current_week) IN
       IF used.raised
       THEN pc' = "crashed" /\ UNCHANGED week_answer
       ELSE /\ pc' = "week prompt"
            /\ week_answer' =
                  [week |-> current_week,
                   used_classrooms |-> used.rooms,
                   available |->
                       IF used.rooms # <<>>
                       THEN get_available_classrooms(Range(used.rooms),
                                                     room_config)
                       ELSE SortByText(room_config)]
    /\ UNCHANGED <<json_file, xlsx_file, room_config, query_return, exported,
                   timeVars, weekVars, oldVars, programVars, sortVars, roomVars,
                   fileVars>>

\* lines 303-304: 0 leaves the week prompt
LeaveWeekPrompt ==
    /\ pc = "week prompt"
    /\ pc' = "menu"
    /\ UNCHANGED <<mainVars, timeVars, weekVars, oldVars, programVars, sortVars,
                   roomVars, fileVars>>

\* choice 2, export_to_excel(all_classrooms): save writes the file, or
\* raises and ends main()
ExportToExcel ==
    /\ pc = "menu"
    /\ \E saved \in BOOLEAN :
          IF saved
          THEN /\ exported' = ExportSheets(xlsx_file, room_config)
               /\ pc' = "menu"
          ELSE /\ pc' = "crashed"
               /\ UNCHANGED exported
    /\ UNCHANGED <<json_file, xlsx_file, room_config, query_return, week_answer,
                   timeVars, weekVars, oldVars, programVars, sortVars, roomVars,
                   fileVars>>

NextMain ==
    \/ LoadClassroomInfo
    \/ \E slot \in (1..5) \X (1..5) : ManualQuery(slot)
    \/ \E current_week \in 1..16 : QueryWeek(current_week)
    \/ LeaveWeekPrompt
    \/ ExportToExcel

SpecMain == InitMain /\ [][NextMain]_vars

----------------------------------------------------------------------------
(* Spec: one campus.  load_schedule_data has loaded the roster and opened  *)
(* the workbook; it reads at most MaxRows rows drawn from ScheduleRows and *)
(* returns; format_and_write_sheet is then called for a week and a mode.   *)

MaxRows == 3

Row(t, c, w, sd) ==
    [time_str |-> t, classroom_raw |-> c, week_range |-> w, single_double |-> sd,
     n_cells |-> ColumnsRead]

\* a row that ends after its week range: row[9] raises IndexError
ShortRow(t, c, w) ==
    [time_str |-> t, classroom_raw |-> c, week_range |-> w, single_double |-> <<>>,
     n_cells |-> ColumnsRead - 1]

A101 == <<"A", "1", "0", "1">>
B2 == <<"B", "2">>
B10 == <<"B", "1", "0">>
c9 == <<"c", "9">>
A_zuo_101 == <<"A", "zuo", "1", "0", "1">>
shi_A101 == <<"shi", "A", "1", "0", "1">>

Wed2 == <<"3", "0", "3">>                        \* Wednesday, period 3: block 2
Wed2twice == <<"3", "0", "4", "0", "3">>         \* periods 4 and 3: block 2 once
Mon125 == <<"1", "0", "9", "0", "1", "0", "3">>  \* Monday, blocks 5, 1, 2
Sat2 == <<"6", "0", "3">>                        \* Saturday

W1_16 == <<"1", "-", "1", "6">>
W3 == <<"3">>
W2_5_16 == <<"2", "-", "5", ",", "1", "6">>
W0_20 == <<"0", "-", "2", "0">>

ScheduleRows ==
    { Row(Wed2, A101, W1_16, OddMark),
      Row(Wed2twice, B2, W3, <<>>),
      Row(Mon125, A101 \o <<" ">> \o B10, W2_5_16, <<>>),
      Row(Mon125, c9, W0_20, EvenMark),
      Row(Wed2, A_zuo_101, <<>>, <<"4">>),
      Row(Wed2, shi_A101, W3, <<>>),
      Row(Sat2, A101, W1_16, <<>>),
      Row(Wed2, <<>>, W1_16, <<>>),
      ShortRow(Wed2, B10, W3) }

Rosters ==
    { {A101, B2, B10},
      {A101, B2, A_zuo_101, shi_A101} }

\* process_excel.py lines 19-33 followed by load_classrooms: the distinct
\* values of the room column of the timetable rows, written one per line
\* and read back trimmed, the empty ones left out
process_excel_files(rows) ==
    {Strip(row.classroom_raw) : row \in rows} \ {<<>>}

Init ==
    /\ pc = "loading"
    /\ all_classrooms \in Rosters
    /\ used_classrooms = EmptyIndex
    /\ rows_read = {}
    /\ n_rows = 0
    /\ IdleSheet
    /\ IdleTime /\ IdleWeeks /\ IdleOld
    /\ IdleSort /\ IdleRooms /\ IdleFiles /\ IdleMain

\* lines 212-249: one iteration of the loop over the rows
ReadRow(row) ==
    /\ pc = "loading"
    /\ n_rows < MaxRows
    /\ used_classrooms' = IngestRow(used_classrooms, row)
    /\ rows_read' = rows_read \cup {row}
    /\ n_rows' = n_rows + 1
    /\ UNCHANGED <<pc, all_classrooms, sheetVars, timeVars, weekVars, oldVars, sortVars, roomVars, fileVars, mainVars>>

\* lines 250-251: the rows are exhausted
FinishLoad ==
    /\ pc = "loading"
    /\ pc' = "loaded"
    /\ UNCHANGED <<loadVars, sheetVars, timeVars, weekVars, oldVars, sortVars, roomVars, fileVars, mainVars>>

\* format_and_write_sheet(sheet, week, ..., status_text, all_classrooms,
\* used_classrooms, ...): every cell, or the cells before the one whose
\* sort raises
WriteSheet(wk, status) ==
    /\ pc = "loaded"
    /\ selected_week' = wk
    /\ status_text' = status
    /\ LET cells == SheetCells(wk, status, all_classrooms, used_classrooms)
           bad == RaisingCells(wk, status, all_classrooms, used_classrooms)
       IN  IF bad = {}
           THEN pc' = "report" /\ sheet' = cells
           ELSE /\ pc' = "raised"
                /\ sheet' = [c \in {d \in Days \X Periods :
                                       \A b \in bad : CellBefore(d, b)} |-> cells[c]]
    /\ UNCHANGED <<loadVars, timeVars, weekVars, oldVars, sortVars, roomVars, fileVars, mainVars>>

Next ==
    \/ \E row \in ScheduleRows : ReadRow(row)
    \/ FinishLoad
    \/ \E wk \in 1..MAX_WEEKS, status \in {"occupied", "free"} : WriteSheet(wk, status)

Spec == Init /\ [][Next]_vars

----------------------------------------------------------------------------
(* Properties of load_schedule_data and format_and_write_sheet (Spec) *)

\* the 400 occupancy keys
OccupancyKeys == (1..MAX_WEEKS) \X Days \X Periods

\* a row as decoded by lines 214-231: whether it reaches the index, and
\* its weekday, blocks, weeks and rooms
Decoded(row) ==
    LET info == IF Len(row.time_str) > 0 THEN parse_time_periods(row.time_str) ELSE NoTime IN
    [ ok |-> info # NoTime /\ Len(row.classroom_raw) > 0 /\ row.n_cells >= ColumnsRead,
      day |-> info.day,
      periods |-> Range(info.periods),
      weeks |-> parse_weeks(row.week_range, row.single_double),
      rooms |-> ProcessedClassrooms(row.classroom_raw) ]

Covers(d, k) == d.ok /\ k[1] \in d.weeks /\ k[2] = d.day /\ k[3] \in d.periods

\* C1: at every key the index holds the union of the rooms of exactly the
\* decodable rows read so far whose weeks, weekday and blocks include the
\* key, and nothing at any other key; the rows enter as a set, so the order
\* in which they were read does not matter.  Stated during and after the
\* load; writing a sheet leaves the index and the rows as they are.
C1_Theorem ==
    pc \in {"loading", "loaded"} =>
        LET decoded == {Decoded(row) : row \in rows_read} IN
        \A k \in OccupancyKeys \cup DOMAIN used_classrooms :
            Occupied(used_classrooms, k) = UNION {d.rooms : d \in {e \in decoded : Covers(e, k)}}

\* week 3, Wednesday, block 2 holds the rooms of two different rows
C1_Witness ==
    /\ pc = "loaded"
    /\ Row(Wed2, A101, W1_16, OddMark) \in rows_read
    /\ Row(Wed2twice, B2, W3, <<>>) \in rows_read
    /\ Occupied(used_classrooms, <<3, 3, 2>>) = {A101, B2}

\* the rooms of the cell for (day, period) and the index entry behind it
Shown(c) == sheet[c].classrooms_to_show
Stored(c) == Occupied(used_classrooms, <<selected_week, c[1], c[2]>>)

\* the rooms main.py's get_available_classrooms lists for the key of a cell
Listed(c) == Range(get_available_classrooms(Stored(c), all_classrooms))

\* C2: in a free-room sheet every cell's rooms are disjoint from the rooms
\* occupied at its key and, together with the occupied rooms of the roster,
\* make up the roster; an occupied room that is not in the roster is not
\* shown as free, and an occupied-room sheet still shows it.  The list of
\* get_available_classrooms for the same key and roster has the same rooms.
C2_Theorem ==
    pc = "report" =>
        \A c \in Days \X Periods :
            /\ status_text = "free" =>
                  /\ Shown(c) \cap Stored(c) = {}
                  /\ Shown(c) \cup (Stored(c) \cap all_classrooms) = all_classrooms
                  /\ \A r \in Stored(c) \ all_classrooms : r \notin Shown(c)
                  /\ Listed(c) \cap Stored(c) = {}
                  /\ Listed(c) \cup (Stored(c) \cap all_classrooms) = all_classrooms
            /\ status_text = "occupied" => Stored(c) \ all_classrooms \subseteq Shown(c)

\* a free-room cell whose key holds a roster room and a room outside the roster
C2_Witness ==
    /\ pc = "report" /\ status_text = "free"
    /\ \E c \in Days \X Periods :
          /\ Stored(c) \ all_classrooms # {}
          /\ Stored(c) \cap all_classrooms # {}
          /\ Shown(c) = all_classrooms \ Stored(c)

\* a row with one weekday digit in 1..5 and one period code in [1, 10],
\* weeks "1-16" with the odd modifier, and a single room
IsOddTermRow(row) ==
    /\ Len(row.time_str) = 3
    /\ row.time_str[1] \in {"1", "2", "3", "4", "5"}
    /\ IntParse(SubSeq(row.time_str, 2, 3)).ok
    /\ IntParse(SubSeq(row.time_str, 2, 3)).val \in 1..10
    /\ row.week_range = <<"1", "-", "1", "6">>
    /\ row.single_double = OddMark
    /\ Cardinality(ProcessedClassrooms(row.classroom_raw)) = 1

\* C3: when the only row read is such a row, with weekday d, block b and a
\* room r of the roster, the free-room sheet of an odd week shows the roster
\* without r at (d, b), the sheet of an even week shows the whole roster
\* there, and every other cell of any week shows the whole roster.
C3_Theorem ==
    (pc = "report" /\ status_text = "free") =>
        \A row \in rows_read :
            (rows_read = {row} /\ IsOddTermRow(row)
                /\ ProcessedClassrooms(row.classroom_raw) \subseteq all_classrooms) =>
            LET d == DigitVal(row.time_str[1])
                b == (IntParse(SubSeq(row.time_str, 2, 3)).val + 1) \div 2
            IN  \A c \in Days \X Periods :
                    Shown(c) = IF c = <<d, b>> /\ selected_week % 2 = 1
                               THEN all_classrooms \ ProcessedClassrooms(row.classroom_raw)
                               ELSE all_classrooms

\* the sheet of week 3 after the one odd-weeks row: A101 is not free
C3_Witness ==
    /\ pc = "report" /\ status_text = "free" /\ selected_week = 3
    /\ rows_read = {Row(Wed2, A101, W1_16, OddMark)}
    /\ all_classrooms = {A101, B2, B10}
    /\ Shown(<<3, 2>>) = {B2, B10}
    /\ Shown(<<3, 3>>) = {A101, B2, B10}

\* C4: reading a row that was read before leaves the index as it was.
C4_Theorem ==
    [][(pc = "loading" /\ n_rows' = n_rows + 1 /\ rows_read' = rows_read)
          => used_classrooms' = used_classrooms]_vars

\* a row was read again after another row, both reaching the index
C4_Witness ==
    /\ n_rows = 3
    /\ rows_read = {Row(Wed2, A101, W1_16, OddMark), Row(Wed2twice, B2, W3, <<>>)}
    /\ Occupied(used_classrooms, <<3, 3, 2>>) = {A101, B2}

\* C5: a sheet has the 25 cells (weekday 1..5, block 1..5); a cell shows
\* the rooms stored at (week, weekday, block) in occupied mode and the
\* roster without them in free mode, its text being empty exactly when it
\* shows no room; a key never populated gives the empty text in occupied
\* mode and the whole roster in free mode; no sheet fails with an error.
C5_Theorem ==
    /\ pc # "raised"
    /\ pc = "report" =>
          /\ DOMAIN sheet = Days \X Periods
          /\ Cardinality(DOMAIN sheet) = 25
          /\ \A c \in Days \X Periods :
                /\ status_text = "occupied" => Shown(c) = Stored(c)
                /\ status_text = "free" => Shown(c) = all_classrooms \ Stored(c)
                /\ (sheet[c].cell_value = <<>>) <=> (Shown(c) = {})
                /\ <<selected_week, c[1], c[2]>> \notin DOMAIN used_classrooms =>
                      IF status_text = "occupied"
                      THEN Shown(c) = {} /\ sheet[c].cell_value = <<>>
                      ELSE Shown(c) = all_classrooms

\* an occupied-room sheet with a populated and a never-populated key
C5_Witness ==
    /\ pc = "report" /\ status_text = "occupied"
    /\ \E c \in Days \X Periods :
          /\ <<selected_week, c[1], c[2]>> \notin DOMAIN used_classrooms
          /\ sheet[c].cell_value = <<>>
    /\ \E c \in Days \X Periods :
          /\ <<selected_week, c[1], c[2]>> \in DOMAIN used_classrooms
          /\ sheet[c].cell_value # <<>>

\* the rooms stored in the index that the roster does not have
OffRoster == UNION {used_classrooms[k] : k \in DOMAIN used_classrooms} \ all_classrooms

\* C23: when a room stored in the index is not in the roster, building the
\* report does not fail and the caller is handed a warning that names the
\* room.
C23_Original ==
    (pc \in {"report", "raised"} /\ OffRoster # {}) =>
        /\ pc = "report"
        /\ OffRoster \subseteq
              SheetWarnings(selected_week, status_text, all_classrooms,
                            used_classrooms)

\* the rows of a set that decode: ten cells, a Monday-to-Friday time, a room cell
DecodableRows(rows) == {row \in rows : Decoded(row).ok}

\* the index the row loop builds from a set of rows, one after another
RECURSIVE IndexFrom(_)
IndexFrom(rows) ==
    IF rows = {} THEN EmptyIndex
    ELSE LET row == CHOOSE r \in rows : TRUE
         IN  IngestRow(IndexFrom(rows \ {row}), row)

\* the index equals the one built from the decodable rows read so far alone
IndexIgnoresFailedRows ==
    pc \in {"loading", "loaded"} =>
        used_classrooms = IndexFrom(DecodableRows(rows_read))

\* reading a row that fails leaves the index as it was and the loop running
FailedRowSkipped ==
    \A row \in ScheduleRows :
        (ReadRow(row) /\ ~Decoded(row).ok) =>
            /\ used_classrooms' = used_classrooms
            /\ pc' = "loading"
            /\ n_rows' = n_rows + 1

\* C22: whichever rows fail (a cell that does not decode, or a row too
\* short so that reading its cells raises), the loop goes on to the rows
\* after them, a failing row adds nothing to the index, and the index equals
\* the one built from the decodable rows alone.
C22_Theorem == []IndexIgnoresFailedRows /\ [][FailedRowSkipped]_vars

\* three rows read: the short row that raises, the Saturday row that does
\* not decode, and a decodable row whose rooms are in the index
C22_Witness ==
    /\ pc = "loaded"
    /\ rows_read = {ShortRow(Wed2, B10, W3), Row(Sat2, A101, W1_16, <<>>),
                    Row(Wed2twice, B2, W3, <<>>)}
    /\ Occupied(used_classrooms, <<3, 3, 2>>) = {B2}
    /\ DOMAIN used_classrooms = {<<3, 3, 2>>}

\* C24: during and after the load every key of the index is one of the 400
\* occupancy keys (week 1..16, weekday 1..5, block 1..5) and holds at least
\* one room.
C24_Theorem ==
    \A key \in DOMAIN used_classrooms :
        /\ key[1] \in 1..16
        /\ key[2] \in 1..5
        /\ key[3] \in 1..5
        /\ used_classrooms[key] # {}

\* a Saturday row and a row of the even weeks of 0-20 were read: the index
\* has the Monday keys of weeks 2 to 16 and no other
C24_Witness ==
    /\ pc = "loaded"
    /\ rows_read = {Row(Sat2, A101, W1_16, <<>>), Row(Mon125, c9, W0_20, EvenMark)}
    /\ DOMAIN used_classrooms = {2, 4, 6, 8, 10, 12, 14, 16} \X {1} \X {1, 2, 5}
    /\ Cardinality((1..16) \X (1..5) \X (1..5)) = 400

\* the roster is the one process_excel.py builds from a timetable that
\* holds the rows read
RosterFromTimetable ==
    \E timetable \in SUBSET ScheduleRows :
        /\ rows_read \subseteq timetable
        /\ all_classrooms = process_excel_files(timetable)

\* C26: with the roster built from the room column of the timetable, a
\* decodable row whose trimmed room cell is a roster entry e has e itself
\* stored at every key the row covers, and there e is absent from the free
\* list.
C26_Original ==
    (pc \in {"loading", "loaded"} /\ RosterFromTimetable) =>
        \A row \in rows_read : \A e \in all_classrooms :
            (Decoded(row).ok /\ Strip(row.classroom_raw) = e) =>
                \A key \in OccupancyKeys :
                    Covers(Decoded(row), key) =>
                        /\ e \in Occupied(used_classrooms, key)
                        /\ e \notin AvailableClassrooms(all_classrooms,
                                                        Occupied(used_classrooms, key))

----------------------------------------------------------------------------
(* Properties of parse_time_periods (SpecTime) *)

\* the two-character slices the loop looks at: 1-based positions 2k, 2k+1
CodeIndexes(s) == 1..((Len(s) - 1) \div 2)
CodeAt(s, k) == SubSeq(s, 2 * k, 2 * k + 1)

\* a weekday digit followed by two-digit period codes and nothing else
IsCodeToken(s) ==
    /\ Len(s) >= 1 /\ Len(s) % 2 = 1
    /\ \A i \in 1..Len(s) : IsDecimalChar(s[i])

\* the codes that are decimal numbers in [1, 10]
ValidPeriods(s) ==
    { DecimalValue(CodeAt(s, k)) :
        k \in { j \in CodeIndexes(s) :
                   /\ \A c \in Range(CodeAt(s, j)) : IsDecimalChar(c)
                   /\ DecimalValue(CodeAt(s, j)) \in 1..10 } }

TeachingDigits == {"1", "2", "3", "4", "5"}

\* C6 as stated: weekday 6 or 7 gives no time reference and weekday 1..5
\* gives one, whatever period codes follow.
C6_Original ==
    (pc = "return" /\ IsCodeToken(time_str)) =>
        /\ time_str[1] \in {"6", "7"} => time_info = NoTime
        /\ time_str[1] \in TeachingDigits => time_info # NoTime

\* C6 amended: weekday 6 or 7 gives no time reference; weekday 1..5 gives
\* one, with that weekday, exactly when some period code is in [1, 10].
C6_Theorem ==
    (pc = "return" /\ IsCodeToken(time_str)) =>
        /\ time_str[1] \in {"6", "7"} => time_info = NoTime
        /\ time_str[1] \in TeachingDigits =>
              /\ time_info # NoTime <=> ValidPeriods(time_str) # {}
              /\ time_info # NoTime => time_info.day = DigitVal(time_str[1])

\* a teaching weekday whose codes are all out of range: no time reference
C6_Witness ==
    /\ pc = "return" /\ IsCodeToken(time_str) /\ Len(time_str) >= 3
    /\ time_str[1] \in TeachingDigits
    /\ ValidPeriods(time_str) = {}
    /\ time_info = NoTime

\* the result C7 describes for a token starting with a teaching weekday
ExpectedTime(s) ==
    LET B == { (p + 1) \div 2 : p \in ValidPeriods(s) } IN
    IF B = {} THEN NoTime
    ELSE [day |-> DigitVal(s[1]), periods |-> SortedSeq(B)]

\* C7 as stated: for a token starting with a weekday digit 1..5 the result
\* is the weekday with the ascending duplicate-free blocks of the codes in
\* [1, 10], every other code and a trailing character contributing
\* nothing, and None when there is no block; blocks are in 1..5.
C7_Original ==
    (pc = "return" /\ Len(time_str) >= 1 /\ time_str[1] \in TeachingDigits) =>
        /\ time_info = ExpectedTime(time_str)
        /\ \A b \in Range(time_info.periods) : b \in 1..5

\* a code that str.isdigit() accepts and int() does not read
HasUnreadableCode(s) ==
    \E k \in CodeIndexes(s) :
        IsDigit(CodeAt(s, k)) /\ \E c \in Range(CodeAt(s, k)) : ~IsDecimalChar(c)

\* C7 on the tokens without such a code (holds; see C7_Original)
C7_ReadableCodes ==
    (pc = "return" /\ Len(time_str) >= 1 /\ time_str[1] \in TeachingDigits
        /\ ~HasUnreadableCode(time_str)) =>
        /\ time_info = ExpectedTime(time_str)
        /\ \A b \in Range(time_info.periods) : b \in 1..5

----------------------------------------------------------------------------
(* Properties of parse_weeks (SpecWeeks) *)

\* the weeks a part names before any odd / even filter: an integer n in
\* [1, MAX_WEEKS], or the weeks of [max(1,a), min(MAX_WEEKS,b)] for a-b
PlainPartWeeks(p) ==
    LET part == Strip(p)
        pieces == Split(part, "-")
    IN  IF Len(pieces) = 1 /\ IntParse(part).ok
        THEN {IntParse(part).val} \cap (1..MAX_WEEKS)
        ELSE IF Len(pieces) = 2 /\ IntParse(pieces[1]).ok /\ IntParse(pieces[2]).ok
        THEN Max(1, IntParse(pieces[1]).val)..Min(MAX_WEEKS, IntParse(pieces[2]).val)
        ELSE {}

\* whether week w passes the filter of modifier sd
PassesModifier(sd, w) ==
    IF sd = OddMark THEN w % 2 = 1
    ELSE IF sd = EvenMark THEN w % 2 = 0
    ELSE TRUE

PartsOf(wr) == Range(Split(wr, ","))

\* the union of what the parts contribute under one modifier for all
UniformWeeks(wr, sd) ==
    { w \in UNION {PlainPartWeeks(p) : p \in PartsOf(wr)} : PassesModifier(sd, w) }

Text_1_8 == <<"1", "-", "8">>

\* C8: with an odd, even or absent modifier every part, range or single
\* number, is filtered by that modifier: the result is the odd, the even or
\* all weeks of the parts' clipped intervals; "1-8" gives {1,3,5,7},
\* {2,4,6,8} and 1..8.
C8_Theorem ==
    (pc = "return" /\ week_range # <<>> /\ single_double \in {<<>>, OddMark, EvenMark}) =>
        /\ weeks = UniformWeeks(week_range, single_double)
        /\ (week_range = Text_1_8 /\ single_double = OddMark) => weeks = {1, 3, 5, 7}
        /\ (week_range = Text_1_8 /\ single_double = EvenMark) => weeks = {2, 4, 6, 8}
        /\ (week_range = Text_1_8 /\ single_double = <<>>) => weeks = 1..8

\* a range and an even single number under the odd modifier
C8_Witness ==
    /\ pc = "return"
    /\ week_range = <<"1", "-", "8", ",", "2">>
    /\ single_double = OddMark
    /\ weeks = {1, 3, 5, 7}

\* a part's own mark: its last character, when that is an odd / even mark
OwnMark(p) ==
    LET part == Strip(p) IN
    IF Len(part) > 0 /\ part[Len(part)] = "dan" THEN OddMark
    ELSE IF Len(part) > 0 /\ part[Len(part)] = "shuang" THEN EvenMark
    ELSE <<>>

WithoutOwnMark(p) ==
    LET part == Strip(p) IN
    IF OwnMark(p) = <<>> THEN part ELSE SubSeq(part, 1, Len(part) - 1)

\* what C9 describes: a marked part filtered by its own mark, every other
\* part by the outer modifier
FinestWeeks(wr, sd) ==
    UNION { { w \in PlainPartWeeks(WithoutOwnMark(p)) :
                PassesModifier(IF OwnMark(p) = <<>> THEN sd ELSE OwnMark(p), w) } :
            p \in PartsOf(wr) }

\* C9 as stated, for parse_weeks: a part carrying its own odd / even mark
\* is filtered by that mark whatever the outer modifier, and every other
\* part by the outer modifier.
C9_Original ==
    (pc = "return" /\ week_range # <<>> /\ single_double \in {<<>>, OddMark, EvenMark}) =>
        weeks = FinestWeeks(week_range, single_double)

\* C10 as stated: a non-empty expression gives the union of its parts'
\* weeks, whatever the modifier.
C10_Original ==
    (pc = "return" /\ week_range # <<>>) =>
        weeks = UniformWeeks(week_range, single_double)

\* the modifier read as a week number: all decimal digits, in [1, MAX_WEEKS]
ModifierWeek(sd) ==
    IF IntParse(sd).ok /\ sd = Strip(sd) /\ IntParse(sd).val \in 1..MAX_WEEKS
    THEN {IntParse(sd).val} ELSE {}

\* C10 amended: a non-empty expression gives the union of its parts' weeks,
\* except that when no part contributes a week and the modifier is a
\* decimal number n in [1, MAX_WEEKS] the result is {n}.
C10_Theorem ==
    (pc = "return" /\ week_range # <<>>) =>
        LET U == UniformWeeks(week_range, single_double) IN
        weeks = IF U = {} THEN ModifierWeek(single_double) ELSE U

\* no part contributes and the modifier is the number 5
C10_Witness ==
    /\ pc = "return"
    /\ week_range = <<"x">>
    /\ single_double = <<"5">>
    /\ weeks = {5}

\* the value of an all-decimal modifier
ModifierNumber(sd) == IntParse(sd).val

\* the modifier is one or more decimal digits
IsNumericModifier(sd) == Len(sd) > 0 /\ \A i \in 1..Len(sd) : IsDecimalChar(sd[i])

\* C11 as stated: an empty range with an all-digit modifier n gives the one
\* week n clipped into [1, MAX_WEEKS].
C11_Original ==
    (pc = "return" /\ week_range = <<>> /\ IsNumericModifier(single_double)) =>
        weeks = {Min(MAX_WEEKS, Max(1, ModifierNumber(single_double)))}

\* C11 amended: an empty range with an all-digit modifier n gives {n} when
\* n is in [1, MAX_WEEKS] and the empty set when it is not.
C11_Theorem ==
    (pc = "return" /\ week_range = <<>> /\ IsNumericModifier(single_double)) =>
        weeks = IF ModifierNumber(single_double) \in 1..MAX_WEEKS
                THEN {ModifierNumber(single_double)} ELSE {}

\* the modifier 20 with an empty range: no week
C11_Witness ==
    /\ pc = "return" /\ week_range = <<>>
    /\ single_double = <<"2", "0">>
    /\ weeks = {}

\* C12: an empty range with an empty modifier, or with a modifier that is
\* not a decimal number (the odd / even marks included), gives the empty
\* set.
C12_Theorem ==
    (pc = "return" /\ week_range = <<>> /\ ~IsNumericModifier(single_double)) =>
        weeks = {}

\* the odd mark with an empty range
C12_Witness ==
    /\ pc = "return" /\ week_range = <<>>
    /\ single_double = OddMark
    /\ weeks = {}

\* a part that is an integer, or integer-integer
WellFormedPart(p) ==
    LET part == Strip(p)
        pieces == Split(part, "-")
    IN  IF "-" \in Range(part)
        THEN Len(pieces) = 2 /\ IntParse(pieces[1]).ok /\ IntParse(pieces[2]).ok
        ELSE IntParse(part).ok

\* the parts of an expression, in order
PartList(wr) == Split(wr, ",")

\* C13: with an empty, odd or even modifier, an expression some of whose
\* parts are malformed gives exactly the union of what each well-formed
\* part gives as an expression of its own.
C13_Theorem ==
    (pc = "return" /\ week_range # <<>> /\ single_double \in {<<>>, OddMark, EvenMark}
        /\ \E i \in 1..Len(PartList(week_range)) : ~WellFormedPart(PartList(week_range)[i])) =>
        weeks = UNION { parse_weeks(Strip(PartList(week_range)[i]), single_double) :
                          i \in { j \in 1..Len(PartList(week_range)) :
                                     WellFormedPart(PartList(week_range)[j]) } }

\* a malformed part in front of a range, under the odd modifier
C13_Witness ==
    /\ pc = "return"
    /\ week_range = <<"x", ",", "1", "-", "8">>
    /\ single_double = OddMark
    /\ weeks = {1, 3, 5, 7}

\* the bounds of a part a-b
IsRangePart(p) ==
    "-" \in Range(Strip(p)) /\ WellFormedPart(p)

RangeStart(p) == IntParse(Split(Strip(p), "-")[1]).val
RangeEnd(p) == IntParse(Split(Strip(p), "-")[2]).val

\* the weeks C14 gives a range part under modifier sd
ClippedRangeWeeks(p, sd) ==
    { w \in Max(1, RangeStart(p))..Min(MAX_WEEKS, RangeEnd(p)) : PassesModifier(sd, w) }

\* C14: under a modifier that is not a number, every range part a-b puts
\* the weeks of [max(1,a), min(MAX_WEEKS,b)] that pass the parity filter
\* into the result, and an expression that is one range part gives exactly
\* those weeks: none when the range lies below 1, above MAX_WEEKS, or has
\* a > b.
C14_Theorem ==
    (pc = "return" /\ week_range # <<>> /\ ~IsDigit(single_double)) =>
        /\ \A i \in 1..Len(PartList(week_range)) :
              IsRangePart(PartList(week_range)[i]) =>
                  ClippedRangeWeeks(PartList(week_range)[i], single_double) \subseteq weeks
        /\ (Len(PartList(week_range)) = 1 /\ IsRangePart(week_range)) =>
              /\ weeks = ClippedRangeWeeks(week_range, single_double)
              /\ ( \/ RangeEnd(week_range) < 1
                   \/ RangeStart(week_range) > MAX_WEEKS
                   \/ RangeStart(week_range) > RangeEnd(week_range) ) => weeks = {}

\* a range wholly above the term: no week
C14_Witness ==
    /\ pc = "return"
    /\ week_range = <<"1", "7", "-", "2", "0">>
    /\ single_double = <<>>
    /\ weeks = {}

----------------------------------------------------------------------------
(* Properties of old_version parse_week_numbers (SpecOld) *)

\* the outer mark of an old-dialect text: the mark right before the final
\* week character
OuterMark(text) ==
    LET n == Len(text) IN
    IF n >= 2 /\ text[n] = "zhou" /\ text[n - 1] = "dan" THEN OddMark
    ELSE IF n >= 2 /\ text[n] = "zhou" /\ text[n - 1] = "shuang" THEN EvenMark
    ELSE <<>>

\* the expression in front of the outer mark
BeforeOuterMark(text) ==
    LET n == Len(text) IN
    IF OuterMark(text) # <<>> THEN SubSeq(text, 1, n - 2)
    ELSE IF n >= 1 /\ text[n] = "zhou" THEN SubSeq(text, 1, n - 1)
    ELSE text

\* C9 as stated, for parse_week_numbers, on texts it parses without error
\* and whose weeks all lie in [1, MAX_WEEKS]
C9_OriginalOld ==
    (pc = "return" /\ ~week_numbers.raised
        /\ week_numbers.weeks \subseteq 1..MAX_WEEKS) =>
        week_numbers.weeks = FinestWeeks(BeforeOuterMark(week_text), OuterMark(week_text))

----------------------------------------------------------------------------
(* Properties of old_version merge_classroom_results (SpecMerge) *)

\* the classroom of a result or merged text, and its week expression: the
\* text between the leading "di" and the "zhou" before the space
TextClassroom(t) == SplitFirst(t, " ")[2]
TextWeeks(t) ==
    LET head == SplitFirst(t, " ")[1] IN SubSeq(head, 2, Len(head) - 1)

\* re-expanding a week expression: a-b to a..b, n to {n}, united
ExpandPiece(piece) ==
    LET ab == Split(piece, "-") IN
    IF Len(ab) = 2 THEN IntParse(ab[1]).val..IntParse(ab[2]).val
    ELSE {IntParse(piece).val}

Expand(expr) == UNION {ExpandPiece(piece) : piece \in Range(Split(expr, ","))}

\* the weeks the results give for a classroom
InputWeeks(classroom) ==
    UNION { Expand(TextWeeks(results[i])) :
              i \in {j \in 1..Len(results) : TextClassroom(results[j]) = classroom} }

MergedList == merged_results.list

\* C15: merge_classroom_results returns one text for each classroom of the
\* results, and re-expanding its dash ranges and single weeks gives exactly
\* the set of weeks the results hold for that classroom; old_version
\* parse_week_numbers reads the same set from it.
C15_Theorem ==
    pc = "return" =>
        /\ ~merged_results.raised
        /\ {TextClassroom(MergedList[i]) : i \in 1..Len(MergedList)}
              = {TextClassroom(results[i]) : i \in 1..Len(results)}
        /\ \A i \in 1..Len(MergedList) :
              LET expr == TextWeeks(MergedList[i])
                  input == InputWeeks(TextClassroom(MergedList[i]))
              IN  /\ Expand(expr) = input
                  /\ parse_week_numbers(expr \o <<"zhou">>) = [raised |-> FALSE, weeks |-> input]

\* two courses of one classroom whose weeks join into a single run
C15_Witness ==
    /\ pc = "return"
    /\ results = <<ResultText({1, 2, 6}, A_zuo_7), ResultText({3, 4, 5}, A_zuo_7)>>
    /\ MergedList = << <<"di", "1", "-", "6", "zhou", " ", "A", "zuo", "7">> >>

\* the intervals of a week expression's pieces, in order, as
\* <<start, end, dashed>>
RECURSIVE PieceIntervals(_)
PieceIntervals(pieces) ==
    IF Len(pieces) = 0 THEN <<>>
    ELSE LET ab == Split(pieces[1], "-")
             first == IF Len(ab) = 2
                      THEN <<IntParse(ab[1]).val, IntParse(ab[2]).val, TRUE>>
                      ELSE <<IntParse(pieces[1]).val, IntParse(pieces[1]).val, FALSE>>
         IN  <<first>> \o PieceIntervals(Tail(pieces))

IntervalList(t) == PieceIntervals(Split(TextWeeks(t), ","))

Text_1_3_5_7_8 ==
    <<"di", "1", "-", "3", ",", "5", ",", "7", "-", "8", "zhou", " ", "A", "zuo", "7">>

\* C16: the intervals of every merged text are in ascending order of start,
\* pairwise disjoint and maximal (each start is at least the previous end
\* plus 2); a run of one week is printed as the week and a longer run as
\* start-end; {1,2,3,5,7,8} gives 1-3,5,7-8.
C16_Theorem ==
    pc = "return" =>
        /\ \A i \in 1..Len(MergedList) :
              LET iv == IntervalList(MergedList[i]) IN
              /\ \A k \in 1..Len(iv) : iv[k][1] <= iv[k][2] /\ (iv[k][3] <=> iv[k][1] < iv[k][2])
              /\ \A k \in 1..(Len(iv) - 1) :
                    /\ iv[k][1] < iv[k + 1][1]
                    /\ iv[k + 1][1] >= iv[k][2] + 2
              /\ \A k, m \in 1..Len(iv) : k < m => iv[k][2] < iv[m][1]
        /\ results = <<ResultText({1, 2, 3, 5, 7, 8}, A_zuo_7)>> =>
              MergedList = <<Text_1_3_5_7_8>>

\* the week set {1,2,3,5,7,8} of one course
C16_Witness ==
    /\ pc = "return"
    /\ results = <<ResultText({1, 2, 3, 5, 7, 8}, A_zuo_7)>>
    /\ MergedList = <<Text_1_3_5_7_8>>

----------------------------------------------------------------------------
(* Properties of the sort of line 307 (SpecSort) *)

\* end of the run of digits, or of non-digits, that starts at position i
RECURSIVE RunEnd(_, _, _)
RunEnd(x, i, digits) ==
    IF i <= Len(x) /\ (IsReDigit(x[i]) <=> digits) THEN RunEnd(x, i + 1, digits) ELSE i

\* a name as its maximal runs from position i on: a digit run with its
\* integer value, any other run with its lower-case text
RECURSIVE Runs(_, _)
Runs(x, i) ==
    IF i > Len(x) THEN <<>>
    ELSE LET digits == IsReDigit(x[i])
             e == RunEnd(x, i, digits)
             run == SubSeq(x, i, e - 1)
         IN  <<[digits |-> digits,
                value |-> IF digits THEN DecimalValue(run) ELSE 0,
                text |-> IF digits THEN <<>> ELSE Lower(run)]>> \o Runs(x, e)

\* a before b in natural order, run by run; a digit run and a text run at
\* the same place are not compared
RECURSIVE RunsLess(_, _)
RunsLess(a, b) ==
    IF Len(b) = 0 THEN FALSE
    ELSE IF Len(a) = 0 THEN TRUE
    ELSE IF a[1] = b[1] THEN RunsLess(Tail(a), Tail(b))
    ELSE IF a[1].digits /\ b[1].digits THEN a[1].value < b[1].value
    ELSE IF ~a[1].digits /\ ~b[1].digits THEN TextLess(a[1].text, b[1].text)
    ELSE FALSE

NaturalLess(x, y) == RunsLess(Runs(x, 1), Runs(y, 1))

SortedList == cell_sorted.list

----------------------------------------------------------------------------
(* Properties of the room extraction of load_schedule_data (SpecRooms) *)

\* every character of s from a to b - 1 is a digit / whitespace / a letter
DigitsIn(s, a, b) == \A n \in a..(b - 1) : IsReDigit(s[n])
SpacesIn(s, a, b) == \A n \in a..(b - 1) : IsSpace(s[n])
LettersIn(s, a, b) == \A n \in a..(b - 1) : IsLetter(s[n])

\* s[i..e-1] is a letter, two digits, one whitespace and three digits
FitsCodeNumber(s, i, e) ==
    /\ e = i + 7
    /\ IsLetter(s[i]) /\ DigitsIn(s, i + 1, i + 3)
    /\ IsSpace(s[i + 3]) /\ DigitsIn(s, i + 4, e)

\* s[i..e-1] is a letter and one or more digits
FitsBareDigits(s, i, e) ==
    /\ e >= i + 2
    /\ IsLetter(s[i]) /\ DigitsIn(s, i + 1, e)

\* s[i..e-1] is a letter, one or more digits, any whitespace and any
\* further digits
FitsSpacedDigits(s, i, e) ==
    /\ IsLetter(s[i])
    /\ \E j \in (i + 2)..e : \E k \in j..e :
           DigitsIn(s, i + 1, j) /\ SpacesIn(s, j, k) /\ DigitsIn(s, k, e)

\* s[i..e-1] is one to three letters and one to three digits
FitsPrefixNumber(s, i, e) ==
    \E j \in (i + 1)..(i + 3) :
        /\ e - j \in 1..3
        /\ LettersIn(s, i, j) /\ DigitsIn(s, j, e)

\* where a text that starts at i and fits pattern k ends; the second
\* pattern is read with or without its whitespace and further digits
Ends(s, i, k, spaced) ==
    { e \in (i + 1)..(Len(s) + 1) :
        CASE k = 1 -> FitsCodeNumber(s, i, e)
          [] k = 2 -> IF spaced THEN FitsSpacedDigits(s, i, e)
                      ELSE FitsBareDigits(s, i, e)
          [] k = 3 -> FitsPrefixNumber(s, i, e) }

SetMax(S) == CHOOSE x \in S : \A y \in S : y <= x

\* the match tried at i: the longest text of the first pattern, in the
\* stated order, that fits there; 0 when none fits
TriedAt(s, i, spaced) ==
    IF ~IsLetter(s[i]) THEN 0
    ELSE IF Ends(s, i, 1, spaced) # {} THEN SetMax(Ends(s, i, 1, spaced))
    ELSE IF Ends(s, i, 2, spaced) # {} THEN SetMax(Ends(s, i, 2, spaced))
    ELSE IF Ends(s, i, 3, spaced) # {} THEN SetMax(Ends(s, i, 3, spaced))
    ELSE 0

\* the texts matched by the scan from i on, left to right, each match
\* starting where the one before ended
RECURSIVE Scanned(_, _, _)
Scanned(s, i, spaced) ==
    IF i > Len(s) THEN {}
    ELSE LET e == TriedAt(s, i, spaced) IN
         IF e = 0 THEN Scanned(s, i + 1, spaced)
         ELSE {SubSeq(s, i, e - 1)} \cup Scanned(s, e, spaced)

Trimmed(texts) == {Strip(t) : t \in texts}

\* no pattern fits anywhere in s
NoPatternFits(s) ==
    \A i \in 1..Len(s) : IsLetter(s[i]) =>
        \A k \in 1..3 : Ends(s, i, k, TRUE) = {} /\ Ends(s, i, k, FALSE) = {}

\* C18: a room cell that is not empty after trimming always gives a
\* non-empty set of room identifiers, and when no pattern fits anywhere in
\* the cell the set holds the whole trimmed cell text and nothing else.
C18_Theorem ==
    pc = "return" =>
        LET trimmed == Strip(room_cell) IN
        /\ room_ids # {}
        /\ \A r \in room_ids : r # <<>>
        /\ room_ids # {trimmed} => ~NoPatternFits(trimmed)

C18_Witness ==
    /\ pc = "return"
    /\ room_cell = <<" ", "shi", ",", "1", "2", " ">>
    /\ NoPatternFits(Strip(room_cell))
    /\ room_ids = {<<"shi", ",", "1", "2">>}

\* C19 as stated, with the second pattern a letter and digits: the set is
\* the trimmed matches of the left-to-right scan that tries the three
\* patterns in order.
C19_Original ==
    pc = "return" =>
        LET trimmed == Strip(room_cell) IN
        \/ room_ids = Trimmed(Scanned(trimmed, 1, FALSE))
        \/ NoPatternFits(trimmed)

\* C19: the set is the trimmed matches of the left-to-right scan that tries
\* at each position a letter, two digits, whitespace and three digits, then
\* a letter, digits, any whitespace and any further digits, then one to
\* three letters and one to three digits; a repeated match counts once.
C19_Theorem ==
    pc = "return" =>
        LET trimmed == Strip(room_cell) IN
        \/ room_ids = Trimmed(Scanned(trimmed, 1, TRUE))
        \/ NoPatternFits(trimmed)

\* the first pattern is tried before the second, which would have taken
\* the fourth digit as well
C19_Witness ==
    /\ pc = "return"
    /\ room_cell = <<"A", "1", "2", " ", "1", "2", "1", "2">>
    /\ room_ids = {<<"A", "1", "2", " ", "1", "2", "1">>}

----------------------------------------------------------------------------
(* Properties of the report generators (SpecReports) *)

\* the roster of the campus cannot be loaded or its workbook cannot be
\* opened
CannotLoad(basename) ==
    \/ source_files[basename].csv \in {"absent", "other case", "unreadable", "empty"}
    \/ source_files[basename].xlsx \in {"absent", "other case", "unreadable"}

\* the campuses load_schedule_data was called for
Loaded == {b \in Basenames : load_result[b] # <<>>}

\* C20: for a campus whose roster cannot be loaded (missing, unreadable or
\* empty) or whose workbook cannot be opened, load_schedule_data returns
\* (None, None), no sheet of any workbook is for that campus, and no saved
\* file holds one; process_excel_all_weeks called for it saves no file,
\* and generate_single_week_excel saves no file when every campus it
\* loaded failed.
C20_Theorem ==
    pc # "menu" =>
        /\ \A b \in Loaded : CannotLoad(b) =>
              /\ load_result[b] = <<"None", "None">>
              /\ \A n \in 1..Len(sheetnames) : sheetnames[n].campus # b
              /\ \A f \in saved_files :
                    /\ f.name # b
                    /\ \A n \in 1..Len(f.sheets) : f.sheets[n].campus # b
        /\ (\A b \in Loaded : CannotLoad(b)) =>
              sheetnames = <<>> /\ saved_files = {}

\* one campus failed and the other gave the single sheet of the saved file
C20_Witness ==
    /\ pc = "returned"
    /\ "selected_week" \in DOMAIN report_args
    /\ \E b \in Loaded : CannotLoad(b) /\ load_result[b] = <<"None", "None">>
    /\ \E f \in saved_files : Len(f.sheets) = 1
    /\ Cardinality(Loaded) = 2

----------------------------------------------------------------------------
(* Properties of main.py (SpecMain) *)

\* C21: export_to_excel saves a report only after the timetable workbook
\* was read and the roster of classrooms.json was loaded: no report exists
\* when the workbook is absent or unreadable or when classrooms.json is
\* missing or malformed.
C21_Original ==
    exported # <<>> =>
        /\ xlsx_file.state = "workbook"
        /\ json_file.state = "rooms"

\* every element of a Python list or tuple is a classroom-info record
AllRecords(value) ==
    \A n \in 1..Len(value.items) : value.items[n].type = "dict"

\* C25: read_excel_cells returns a pair whose second component is a list
\* of classroom-info records; when no sampled cell gives a record the first
\* component is the one-element message list and the second is the empty
\* list; the manual query never hands get_classrooms_by_week an element
\* that is not a record.
C25_Original ==
    query_return # <<>> =>
        /\ query_return[2].type = "list"
        /\ AllRecords(query_return[2])
        /\ query_return[2].items = <<>> =>
              query_return[1].items \in {<<NothingFound>>, <<ErrorMessage>>}
        /\ query_return[2].items # <<>> =>
              Len(query_return[1].items) = Len(query_return[2].items)

====
